---------------------------- MODULE Spec2Model ----------------------------
(***************************************************************************)
(* Model of the Mermaid -> React Flow conversion pipeline                  *)
(* (core/mermaidToReactFlow.ts, core/mermaidParser.ts).                    *)
(* and of the Obsidian view that displays a diagram and keeps the node     *)
(* positions of the user (obsidian-plugin).                                *)
(*                                                                         *)
(* Source text is modelled as TLA+ strings, which TLC treats as sequences  *)
(* of characters (Len, SubSeq and \o work on them).  The JavaScript        *)
(* regular expressions of the source are modelled by a small backtracking  *)
(* matcher over regex syntax trees, so that every pattern of the source    *)
(* appears in the model as the tree of the pattern itself.                 *)
(***************************************************************************)
EXTENDS Integers, Sequences, FiniteSets, TLC

(***************************************************************************)
(* JavaScript string primitives                                            *)
(***************************************************************************)
CharAt(s, i) == SubSeq(s, i, i)

UpperChars == "ABCDEFGHIJKLMNOPQRSTUVWXYZ"
LowerChars == "abcdefghijklmnopqrstuvwxyz"
DigitChars == "0123456789"

CharsOf(s) == { CharAt(s, i) : i \in 1..Len(s) }

\* \w  ==  [A-Za-z0-9_]
WordChar == CharsOf(UpperChars) \cup CharsOf(LowerChars) \cup CharsOf(DigitChars) \cup {"_"}
\* \s
SpaceChar == {" ", "\t", "\n", "\r"}

\* String.prototype.toLowerCase, one character
LowerOfChar(c) ==
    IF \E i \in 1..Len(UpperChars) : CharAt(UpperChars, i) = c
    THEN LET i == CHOOSE j \in 1..Len(UpperChars) : CharAt(UpperChars, j) = c
         IN  CharAt(LowerChars, i)
    ELSE c

UpperOfChar(c) ==
    IF \E i \in 1..Len(LowerChars) : CharAt(LowerChars, i) = c
    THEN LET i == CHOOSE j \in 1..Len(LowerChars) : CharAt(LowerChars, j) = c
         IN  CharAt(UpperChars, i)
    ELSE c

\* the concatenation f(lo) \o ... \o f(hi) of strings, by halving
RECURSIVE StrCat(_, _, _)
StrCat(f(_), lo, hi) ==
    IF lo > hi THEN ""
    ELSE IF lo = hi THEN f(lo)
    ELSE LET mid == (lo + hi) \div 2
         IN  StrCat(f, lo, mid) \o StrCat(f, mid + 1, hi)

\* the concatenation f(lo) \o ... \o f(hi) of sequences, by halving
RECURSIVE SeqCat(_, _, _)
SeqCat(f(_), lo, hi) ==
    IF lo > hi THEN << >>
    ELSE IF lo = hi THEN f(lo)
    ELSE LET mid == (lo + hi) \div 2
         IN  SeqCat(f, lo, mid) \o SeqCat(f, mid + 1, hi)

\* String.prototype.toLowerCase
ToLowerCase(s) == LET low(i) == LowerOfChar(CharAt(s, i)) IN StrCat(low, 1, Len(s))

\* String.prototype.startsWith
StartsWith(s, p) == Len(p) <= Len(s) /\ SubSeq(s, 1, Len(p)) = p

\* String.prototype.includes
Includes(s, p) == \E i \in 1..(Len(s) - Len(p) + 1) : SubSeq(s, i, i + Len(p) - 1) = p

\* String.prototype.trim
Trim(s) ==
    LET solid == { i \in 1..Len(s) : CharAt(s, i) \notin SpaceChar }
    IN  IF solid = {} THEN ""
        ELSE SubSeq(s, CHOOSE i \in solid : \A j \in solid : i <= j,
                       CHOOSE i \in solid : \A j \in solid : j <= i)

\* String.prototype.split('\n'): always at least one piece
SplitLines(s) ==
    LET breaks == { i \in 1..Len(s) : CharAt(s, i) = "\n" }
        \* the position of the k-th line break; 0 and Len(s) + 1 bound the text
        brk(k) == IF k = 0 THEN 0
                  ELSE IF k > Cardinality(breaks) THEN Len(s) + 1
                  ELSE CHOOSE i \in breaks : Cardinality({ j \in breaks : j < i }) = k - 1
    IN  [k \in 1..(Cardinality(breaks) + 1) |-> SubSeq(s, brk(k - 1) + 1, brk(k) - 1)]

\* Array.prototype.join('\n')
JoinLines(ls) ==
    LET piece(k) == IF k = 1 THEN ls[k] ELSE "\n" \o ls[k]
    IN  StrCat(piece, 1, Len(ls))

\* Number -> decimal string, as a template literal `${n}` prints it (n >= 0)
RECURSIVE NumStr(_)
NumStr(n) ==
    IF n < 10 THEN CharAt(DigitChars, n + 1)
    ELSE NumStr(n \div 10) \o CharAt(DigitChars, (n % 10) + 1)

\* a || b  on strings (undefined and '' are both falsy; an unmatched capture
\* group is represented by '')
OrElse(a, b) == IF a = "" THEN b ELSE a

(***************************************************************************)
(* Regular expressions: syntax trees and a backtracking matcher with the   *)
(* priority order of the JavaScript engine (a greedy quantifier tries the  *)
(* longest repetition first, a lazy one the shortest, alternatives are     *)
(* tried left to right, and the first way that lets the rest of the        *)
(* pattern match is taken).  Every quantified item of the source's         *)
(* patterns is a single character class, and so is it here.                *)
(***************************************************************************)
Chr(S)      == [t |-> "set", s |-> S]             \* [...]
NotChr(S)   == [t |-> "not", s |-> S]             \* [^...]
AnyChr      == NotChr({"\n", "\r"})               \* .
Cat(rs)     == [t |-> "cat", rs |-> rs]
Alt(rs)     == [t |-> "alt", rs |-> rs]           \* a|b|c
Star(c)     == [t |-> "star", r |-> c]            \* c*
LazyStar(c) == [t |-> "lazy", r |-> c]            \* c*?
Opt(r)      == [t |-> "opt", r |-> r]             \* r?
Plus(c)     == Cat(<< c, Star(c) >>)              \* c+
Grp(n, r)   == [t |-> "grp", n |-> n, r |-> r]    \* capture group number n
Bol         == [t |-> "bol"]                      \* ^
Eol         == [t |-> "eol"]                      \* $
Lit(str)    == Cat([i \in 1..Len(str) |-> Chr({CharAt(str, i)})])
\* a literal under the /i flag
LitI(str)   == Cat([i \in 1..Len(str) |->
                     Chr({LowerOfChar(CharAt(str, i)), UpperOfChar(CharAt(str, i))})])
\* the end of capture group n, which began at position from
Close(n, from) == [t |-> "close", n |-> n, from |-> from]

MaxGroups == 4
NoCaps == [i \in 1..MaxGroups |-> << 0, 0 >>]
Fail == [ok |-> FALSE, pos |-> 0, caps |-> NoCaps]

\* how many characters from pos on belong to the one-character pattern c
Fits(c, ch) == IF c.t = "set" THEN ch \in c.s ELSE ch \notin c.s
Run(c, s, pos) ==
    CHOOSE k \in 0..(Len(s) - pos + 1) :
        /\ pos + k > Len(s) \/ ~Fits(c, CharAt(s, pos + k))
        /\ \A j \in 0..(k - 1) : Fits(c, CharAt(s, pos + j))

RECURSIVE MatchHere(_, _, _, _), TryAlts(_, _, _, _, _, _), TryRuns(_, _, _, _, _, _, _, _)
\* the first way the patterns rs, one after the other, match s from position pos
\* with the captures caps so far: [ok, pos, caps], pos being the end of the match
MatchHere(rs, s, pos, caps) ==
    IF rs = << >> THEN [ok |-> TRUE, pos |-> pos, caps |-> caps]
    ELSE LET r == Head(rs)
             rest == Tail(rs)
         IN  CASE r.t \in {"set", "not"} ->
                    IF pos <= Len(s) /\ Fits(r, CharAt(s, pos))
                    THEN MatchHere(rest, s, pos + 1, caps) ELSE Fail
               [] r.t = "cat"  -> MatchHere(r.rs \o rest, s, pos, caps)
               [] r.t = "alt"  -> TryAlts(r.rs, 1, rest, s, pos, caps)
               [] r.t = "star" -> TryRuns(rest, s, pos, caps, 0, Run(r.r, s, pos),
                                          Run(r.r, s, pos), TRUE)
               [] r.t = "lazy" -> TryRuns(rest, s, pos, caps, 0, Run(r.r, s, pos),
                                          Run(r.r, s, pos), FALSE)
               [] r.t = "opt"  -> LET with == MatchHere(<< r.r >> \o rest, s, pos, caps)
                                  IN  IF with.ok THEN with
                                      ELSE MatchHere(rest, s, pos, caps)
               [] r.t = "grp"  -> MatchHere(<< r.r, Close(r.n, pos) >> \o rest, s, pos, caps)
               [] r.t = "close" ->
                    MatchHere(rest, s, pos, [caps EXCEPT ![r.n] = << r.from, pos >>])
               [] r.t = "bol"  -> IF pos = 1 THEN MatchHere(rest, s, pos, caps) ELSE Fail
               [] r.t = "eol"  -> IF pos = Len(s) + 1 THEN MatchHere(rest, s, pos, caps)
                                  ELSE Fail

\* the alternatives from the i-th on, in order
TryAlts(alts, i, rest, s, pos, caps) ==
    IF i > Len(alts) THEN Fail
    ELSE LET this == MatchHere(<< alts[i] >> \o rest, s, pos, caps)
         IN  IF this.ok THEN this ELSE TryAlts(alts, i + 1, rest, s, pos, caps)

\* a run of run characters was found at pos: the tries number lo..hi of a
\* quantifier, by halving; try number i takes run - i characters when greedy, i
\* characters when lazy
TryRuns(rest, s, pos, caps, lo, hi, run, greedy) ==
    IF lo > hi THEN Fail
    ELSE IF lo = hi
    THEN MatchHere(rest, s, pos + (IF greedy THEN run - lo ELSE lo), caps)
    ELSE LET mid == (lo + hi) \div 2
             first == TryRuns(rest, s, pos, caps, lo, mid, run, greedy)
         IN  IF first.ok THEN first
             ELSE TryRuns(rest, s, pos, caps, mid + 1, hi, run, greedy)

NoMatch == [found |-> FALSE, start |-> 0, end |-> 0, caps |-> NoCaps]

\* the match object of a match m that began at start
MatchAt(start, m) ==
    IF m.ok THEN [found |-> TRUE, start |-> start, end |-> m.pos, caps |-> m.caps]
    ELSE NoMatch

\* the leftmost start in lo..hi from which r matches s (by halving)
RECURSIVE FirstMatch(_, _, _, _)
FirstMatch(r, s, lo, hi) ==
    IF lo > hi THEN NoMatch
    ELSE IF lo = hi THEN MatchAt(lo, MatchHere(<< r >>, s, lo, NoCaps))
    ELSE LET mid == (lo + hi) \div 2
             left == FirstMatch(r, s, lo, mid)
         IN  IF left.found THEN left ELSE FirstMatch(r, s, mid + 1, hi)

\* c when r begins with a repetition c+ of a character class c, alone or as a
\* capture group; the pattern that matches nothing otherwise
NoClass == Chr({})
Ungrouped(r) == IF r.t = "grp" THEN r.r ELSE r
IsPlus(r) ==
    /\ r.t = "cat"
    /\ Len(r.rs) = 2
    /\ r.rs[1].t \in {"set", "not"}
    /\ r.rs[2] = Star(r.rs[1])
LeadClass(r) ==
    IF r.t = "cat" /\ r.rs # << >> /\ IsPlus(Ungrouped(r.rs[1]))
    THEN Ungrouped(r.rs[1]).rs[1]
    ELSE NoClass

\* the leftmost start in pos..hi from which r, which begins with c+, matches s.
\* The matcher has no back-references, so how a match goes on after the
\* leading repetition depends only on where the repetition ends, and the ends
\* that can be tried from a start inside a run of c characters are among those
\* tried from any earlier start of the same run: when one start fails, every
\* later start of its run fails, and the search goes on behind the run.
RECURSIVE StartAfterRuns(_, _, _, _, _), StartOr(_, _, _, _, _, _)
StartAfterRuns(r, c, s, pos, hi) ==
    IF pos > hi THEN NoMatch
    ELSE StartOr(r, c, s, pos, hi, MatchHere(<< r >>, s, pos, NoCaps))
StartOr(r, c, s, pos, hi, m) ==
    IF m.ok THEN MatchAt(pos, m)
    ELSE IF Run(c, s, pos) > 1 THEN StartAfterRuns(r, c, s, pos + Run(c, s, pos), hi)
    ELSE StartAfterRuns(r, c, s, pos + 1, hi)

\* RegExp.prototype.exec from index `from` (1-based): the leftmost match
ExecFrom(r, s, from) ==
    IF LeadClass(r) # NoClass THEN StartAfterRuns(r, LeadClass(r), s, from, Len(s) + 1)
    ELSE FirstMatch(r, s, from, Len(s) + 1)

\* String.prototype.match with a non-global pattern
Match(s, r) == ExecFrom(r, s, 1)

\* match[0]
Whole(s, m) == SubSeq(s, m.start, m.end - 1)
\* match[n]; '' when the group did not take part in the match
Group(s, m, n) ==
    IF m.caps[n][1] = 0 THEN "" ELSE SubSeq(s, m.caps[n][1], m.caps[n][2] - 1)

\* String.prototype.replace with a global pattern and a constant replacement
RECURSIVE ReplaceAllFrom(_, _, _, _), ReplaceMatch(_, _, _, _, _)
ReplaceAllFrom(s, r, repl, from) == ReplaceMatch(s, r, repl, from, ExecFrom(r, s, from))
\* m is the next match from index `from` on
ReplaceMatch(s, r, repl, from, m) ==
    IF ~m.found THEN SubSeq(s, from, Len(s))
    ELSE IF m.end = m.start
         THEN IF m.start > Len(s) THEN SubSeq(s, from, Len(s)) \o repl
              ELSE SubSeq(s, from, m.start - 1) \o repl \o CharAt(s, m.start)
                     \o ReplaceAllFrom(s, r, repl, m.start + 1)
         ELSE SubSeq(s, from, m.start - 1) \o repl \o ReplaceAllFrom(s, r, repl, m.end)

ReplaceAll(s, r, repl) == ReplaceAllFrom(s, r, repl, 1)

(***************************************************************************)
(* core/mermaidToReactFlow.ts: the flowchart dialect                       *)
(***************************************************************************)
SUBGRAPH_HEADER_HEIGHT == 50
SUBGRAPH_PADDING == 30

Openers == {"[", "(", "{"}
Closers == {"]", ")", "}"}
IdRe == Plus(Chr(WordChar))                              \* [A-Za-z0-9_]+
\* [\[\(\{][^\]\)\}]*[\]\)\}]
BracketRe == Cat(<< Chr(Openers), Star(NotChr(Closers)), Chr(Closers) >>)
WsRe == Star(Chr(SpaceChar))                             \* \s*
\* (-->|->|---|===>|==>|-\.-|:-:|::|~|\.\.\.|===)
ArrowRe == Alt(<< Lit("-->"), Lit("->"), Lit("---"), Lit("===>"), Lit("==>"), Lit("-.-"),
                  Lit(":-:"), Lit("::"), Lit("~"), Lit("..."), Lit("===") >>)

\* /<br\s*\/?>/gi
BrTagRe == Cat(<< Lit("<"), LitI("br"), WsRe, Opt(Lit("/")), Lit(">") >>)
\* /<[^>]*>/g
AnyTagRe == Cat(<< Lit("<"), Star(NotChr({">"})), Lit(">") >>)

cleanLabel(label) == Trim(ReplaceAll(ReplaceAll(label, BrTagRe, "\n"), AnyTagRe, ""))

getNodeShape(nodeDefinition) ==
    IF Includes(nodeDefinition, "{") /\ Includes(nodeDefinition, "}") THEN "diamond"
    ELSE IF Includes(nodeDefinition, "((") /\ Includes(nodeDefinition, "))") THEN "circle"
    ELSE IF Includes(nodeDefinition, "([") /\ Includes(nodeDefinition, "])") THEN "stadium"
    ELSE IF Includes(nodeDefinition, "[") /\ Includes(nodeDefinition, "]") THEN "rect"
    ELSE IF Includes(nodeDefinition, "(") /\ Includes(nodeDefinition, ")") THEN "round"
    ELSE "rect"

\* /^subgraph\s+([^\s]+)(?:\s*\[(.+)\])?/
SubgraphRe ==
    Cat(<< Bol, Lit("subgraph"), Plus(Chr(SpaceChar)), Grp(1, Plus(NotChr(SpaceChar))),
           Opt(Cat(<< WsRe, Lit("["), Grp(2, Plus(AnyChr)), Lit("]") >>)) >>)

\* A[Label] -->|EdgeLabel| B{Label}
EdgePattern1 ==
    Cat(<< Grp(1, IdRe), Opt(BracketRe), WsRe, Grp(2, ArrowRe), WsRe,
           Opt(Cat(<< Lit("|"), Grp(3, Plus(NotChr({"|"}))), Lit("|") >>)), WsRe,
           Grp(4, IdRe), Opt(BracketRe) >>)
\* Simpler pattern: A --> B
EdgePattern2 == Cat(<< Grp(1, IdRe), WsRe, Grp(2, ArrowRe), WsRe, Grp(3, IdRe) >>)

\* new RegExp(`${id}([\\[\\(\\{][^\\]\\)\\}]*[\\]\\)\\}])`)
NodeDefRe(id) == Cat(<< Lit(id), Grp(1, BracketRe) >>)
\* /[\[\(\{]([^\]\)\}]*)[\]\)\}]/
LabelRe == Cat(<< Chr(Openers), Grp(1, Star(NotChr(Closers))), Chr(Closers) >>)
\* /^([A-Za-z0-9_]+)([\[\(\{][^\]\)\}]*[\]\)\}])/   and   /^([A-Za-z0-9_]+)$/
NodePattern1 == Cat(<< Bol, Grp(1, IdRe), Grp(2, BracketRe) >>)
NodePattern2 == Cat(<< Bol, Grp(1, IdRe), Eol >>)

\* the label of a node definition text
LabelFrom(def, id, labelMatch) ==
    IF labelMatch.found THEN cleanLabel(Group(def, labelMatch, 1)) ELSE id
LabelOf(def, id) == LabelFrom(def, id, Match(def, LabelRe))

\* subgraph.nodes.push(id) on the first subgraph whose id is currentSubgraph
PushMember(subgraphs, currentSubgraph, id) ==
    IF currentSubgraph = "" \/ ~ \E k \in 1..Len(subgraphs) : subgraphs[k].id = currentSubgraph
    THEN subgraphs
    ELSE LET k == CHOOSE j \in 1..Len(subgraphs) :
                    /\ subgraphs[j].id = currentSubgraph
                    /\ \A h \in 1..(j - 1) : subgraphs[h].id # currentSubgraph
         IN  [subgraphs EXCEPT ![k].nodes = Append(@, id)]

\* nodes.push(node); nodeMap.set(id, node); membership of the current subgraph
AddNode(ps, id, label, shape) ==
    [ps EXCEPT !.nodes = Append(@, [id |-> id, label |-> label, shape |-> shape,
                                    subgraph |-> ps.currentSubgraph]),
               !.nodeMap = @ \cup {id},
               !.subgraphs = PushMember(@, ps.currentSubgraph, id)]

\* "Parse source node" / "Parse target node": one endpoint of an edge line
DefineNode(ps, id, fullDef) == AddNode(ps, id, LabelOf(fullDef, id), getNodeShape(fullDef))
\* an endpoint left dangling when the line holds no definition of it
EndpointDefinedOnly(ps, fullLine, id, nodeMatch) ==
    IF nodeMatch.found /\ id \notin ps.nodeMap
    THEN DefineNode(ps, id, Whole(fullLine, nodeMatch))
    ELSE ps
EndpointFrom(ps, fullLine, id, nodeMatch) ==
    IF nodeMatch.found /\ id \notin ps.nodeMap
    THEN DefineNode(ps, id, Whole(fullLine, nodeMatch))
    ELSE IF id \notin ps.nodeMap
         THEN AddNode(ps, id, id, "rect")
         ELSE ps
ParseEndpoint(ps, fullLine, id) ==
    EndpointFrom(ps, fullLine, id, Match(fullLine, NodeDefRe(id)))

\* the first of edgePatterns that matches the line
FirstFound(m1, m2) == IF m1.found THEN m1 ELSE m2
EdgeMatch(line) == FirstFound(Match(line, EdgePattern1), Match(line, EdgePattern2))

PushEdge(ps, sourceId, targetId, edgeLabel, edgeType) ==
    [ps EXCEPT !.edges = Append(@, [source |-> sourceId, target |-> targetId,
                                    label |-> edgeLabel, type |-> edgeType])]
ParseEdgeLine(ps, line, edgeMatch) ==
    LET sourceId  == Group(line, edgeMatch, 1)
        edgeType  == Group(line, edgeMatch, 2)
        edgeLabel == OrElse(Group(line, edgeMatch, 3), "")
        targetId  == OrElse(Group(line, edgeMatch, 4), Group(line, edgeMatch, 3))
    IN  PushEdge(ParseEndpoint(ParseEndpoint(ps, line, sourceId), line, targetId),
                 sourceId, targetId, edgeLabel, edgeType)

\* "Parse standalone node definitions"
StandaloneNode(ps, nodeId, nodeDef) ==
    DefineNode(ps, nodeId, OrElse(nodeDef, "[" \o nodeId \o "]"))
NodeFrom(ps, line, m1, m2) ==
    IF m1.found /\ Group(line, m1, 1) \notin ps.nodeMap
    THEN StandaloneNode(ps, Group(line, m1, 1), Group(line, m1, 2))
    ELSE IF m2.found /\ Group(line, m2, 1) \notin ps.nodeMap
    THEN StandaloneNode(ps, Group(line, m2, 1), Group(line, m2, 2))
    ELSE ps
ParseNodeLine(ps, line) ==
    NodeFrom(ps, line, Match(line, NodePattern1), Match(line, NodePattern2))

\* "Check for subgraph start"
OpenSubgraph(ps, subgraphId, subgraphTitle) ==
    [ps EXCEPT !.currentSubgraph = subgraphId,
               !.subgraphs = Append(@, [id |-> subgraphId,
                                        title |-> OrElse(subgraphTitle, subgraphId),
                                        nodes |-> << >>])]

\* one iteration of the line loop of parseMermaidCode, the line being trimmed
ParseMatched(ps, line, subgraphMatch, edgeMatch) ==
    IF line = "" THEN ps
    ELSE IF subgraphMatch.found
    THEN OpenSubgraph(ps, Group(line, subgraphMatch, 1), Group(line, subgraphMatch, 2))
    ELSE IF line = "end" THEN [ps EXCEPT !.currentSubgraph = ""]
    ELSE IF edgeMatch.found THEN ParseEdgeLine(ps, line, edgeMatch)
    ELSE ParseNodeLine(ps, line)
ParseTrimmed(ps, line) == ParseMatched(ps, line, Match(line, SubgraphRe), EdgeMatch(line))
ParseLine(ps, rawLine) == ParseTrimmed(ps, Trim(rawLine))

RECURSIVE ParseLoop(_, _, _)
ParseLoop(lines, i, ps) ==
    IF i > Len(lines) THEN ps ELSE ParseLoop(lines, i + 1, ParseLine(ps, lines[i]))

\* code.split('\n').map(trim).filter(line => line && !line.startsWith('%%'))
CleanLines(code) ==
    SelectSeq([k \in 1..Len(SplitLines(code)) |-> Trim(SplitLines(code)[k])],
              LAMBDA line : line # "" /\ ~StartsWith(line, "%%"))

EmptyParse == [nodes |-> << >>, edges |-> << >>, subgraphs |-> << >>,
               nodeMap |-> {}, currentSubgraph |-> ""]

ParseResult(ps) == [nodes |-> ps.nodes, edges |-> ps.edges, subgraphs |-> ps.subgraphs]
\* the loop starts at lines[1]: the first line is the diagram header
ParseLines(lines) == ParseResult(ParseLoop(lines, 2, EmptyParse))
parseFlowchart(code) == ParseLines(SplitLines(JoinLines(CleanLines(code))))

(***************************************************************************)
(* core/mermaidToReactFlow.ts: the sequence dialect                        *)
(***************************************************************************)
\* /participant\s+(\w+)(?:\s+as\s+(.+))?/i
ParticipantRe ==
    Cat(<< LitI("participant"), Plus(Chr(SpaceChar)), Grp(1, Plus(Chr(WordChar))),
           Opt(Cat(<< Plus(Chr(SpaceChar)), LitI("as"), Plus(Chr(SpaceChar)),
                      Grp(2, Plus(AnyChr)) >>)) >>)

\* /(\w+)\s*(--?>>?|-\)|->>?)\s*(\w+)\s*:\s*(.+)/
MessageRe ==
    Cat(<< Grp(1, Plus(Chr(WordChar))), WsRe,
           Grp(2, Alt(<< Cat(<< Lit("-"), Opt(Lit("-")), Lit(">"), Opt(Lit(">")) >>),
                         Lit("-)"),
                         Cat(<< Lit("->"), Opt(Lit(">")) >>) >>)),
           WsRe, Grp(3, Plus(Chr(WordChar))), WsRe, Lit(":"), WsRe, Grp(4, Plus(AnyChr)) >>)

\* participantLabels.has(id) is FALSE: push the id and set its label
AddParticipant(sq, id, label) ==
    IF id \in DOMAIN sq.participantLabels THEN sq
    ELSE [sq EXCEPT !.participantOrder = Append(@, id),
                    !.participantLabels = (id :> label) @@ @]

\* a participant line: the declared id, labelled by its alias or by itself
DeclareFrom(sq, line, match) ==
    IF StartsWith(ToLowerCase(line), "participant ") /\ match.found
    THEN AddParticipant(sq, Group(line, match, 1),
                        OrElse(Group(line, match, 2), Group(line, match, 1)))
    ELSE sq

\* "First pass: extract participants in order"
RECURSIVE FirstPass(_, _, _)
FirstPass(lines, i, sq) ==
    IF i > Len(lines) THEN sq
    ELSE FirstPass(lines, i + 1, DeclareFrom(sq, lines[i], Match(lines[i], ParticipantRe)))

\* "Second pass: extract messages and auto-discover participants"
PushMessage(sq, source, arrowType, target, message) ==
    [sq EXCEPT !.messages = Append(@,
        [source |-> source, target |-> target, label |-> message,
         arrowType |-> arrowType, index |-> Len(sq.messages)])]
\* the receiver discovered before the sender
MessageReceiverFirst(sq, line, arrowMatch) ==
    IF arrowMatch.found
    THEN LET source == Group(line, arrowMatch, 1)
             target == Group(line, arrowMatch, 3)
         IN  PushMessage(AddParticipant(AddParticipant(sq, target, target), source, source),
                         source, Group(line, arrowMatch, 2), target,
                         Group(line, arrowMatch, 4))
    ELSE sq
\* a message line: both ends auto-discovered, sender first, then the message
MessageFrom(sq, line, arrowMatch) ==
    IF arrowMatch.found
    THEN LET source == Group(line, arrowMatch, 1)
             target == Group(line, arrowMatch, 3)
         IN  PushMessage(AddParticipant(AddParticipant(sq, source, source), target, target),
                         source, Group(line, arrowMatch, 2), target,
                         Group(line, arrowMatch, 4))
    ELSE sq

RECURSIVE SecondPass(_, _, _)
SecondPass(lines, i, sq) ==
    IF i > Len(lines) THEN sq
    ELSE SecondPass(lines, i + 1, MessageFrom(sq, lines[i], Match(lines[i], MessageRe)))

EmptySequence == [participantOrder |-> << >>, participantLabels |-> << >>,
                  messages |-> << >>]

\* participantOrder, participantLabels and messages after both passes
BothPasses(lines) == SecondPass(lines, 1, FirstPass(lines, 1, EmptySequence))
CollectSequence(code) == BothPasses(CleanLines(code))

HeaderId(id) == "header_" \o id
LifelineId(id, i) == "lifeline_" \o id \o "_" \o NumStr(i)

\* "Create header nodes for each participant in order"
HeaderNodes(sq) ==
    [k \in 1..Len(sq.participantOrder) |->
        LET id == sq.participantOrder[k]
        IN  [id |-> HeaderId(id),
             label |-> OrElse(sq.participantLabels[id], id),
             shape |-> "rect",
             metadata |-> [participantOrder |-> k - 1, participantId |-> id]]]

\* one lifeline point per message and a single extra point
LifelineNodesOneExtra(sq, k) ==
    [j \in 1..(Len(sq.messages) + 1) |->
        [id |-> LifelineId(sq.participantOrder[k], j - 1),
         label |-> "",
         shape |-> "rect",
         metadata |-> [participantOrder |-> k - 1, lifelineIndex |-> j - 1]]]
\* the lifeline points of the participant at position k (0-based order k - 1)
LifelineNodes(sq, k) ==
    [j \in 1..(Len(sq.messages) + 2) |->
        [id |-> LifelineId(sq.participantOrder[k], j - 1),
         label |-> "",
         shape |-> "rect",
         metadata |-> [participantOrder |-> k - 1, lifelineIndex |-> j - 1]]]

\* the edges pushed while participant k is processed: the chain, then the header edge
LifelineEdges(sq, k) ==
    LET id == sq.participantOrder[k]
    IN  [j \in 1..(Len(sq.messages) + 1) |->
            [source |-> LifelineId(id, j - 1), target |-> LifelineId(id, j),
             label |-> "", type |-> "default"]]
        \o << [source |-> HeaderId(id), target |-> LifelineId(id, 0),
               label |-> "", type |-> "default"] >>

\* the message edges without the step over the top point
MessageEdgesAtIndex(sq) ==
    [k \in 1..Len(sq.messages) |->
        LET msg == sq.messages[k]
        IN  [source |-> LifelineId(msg.source, msg.index),
             target |-> LifelineId(msg.target, msg.index),
             label |-> msg.label,
             type |-> IF Includes(msg.arrowType, "--") THEN "dashed" ELSE "default"]]
\* "Create edges for messages"
MessageEdges(sq) ==
    [k \in 1..Len(sq.messages) |->
        LET msg == sq.messages[k]
            lifelineIndex == msg.index + 1
        IN  [source |-> LifelineId(msg.source, lifelineIndex),
             target |-> LifelineId(msg.target, lifelineIndex),
             label |-> msg.label,
             type |-> IF Includes(msg.arrowType, "--") THEN "dashed" ELSE "default"]]

\* the nodes and edges parseSequenceDiagram builds from what it collected
SequenceGraph(sq) ==
    LET P == Len(sq.participantOrder)
        Points(k) == LifelineNodes(sq, k)
        Chains(k) == LifelineEdges(sq, k)
    IN  [nodes |-> HeaderNodes(sq) \o SeqCat(Points, 1, P),
         edges |-> SeqCat(Chains, 1, P) \o MessageEdges(sq)]
parseSequenceDiagram(code) == SequenceGraph(CollectSequence(code))

IsSequenceDiagram(code) == StartsWith(Trim(code), "sequenceDiagram")

\* return { nodes: sequenceResult.nodes, edges: sequenceResult.edges, subgraphs: [] }
WithoutSubgraphs(sequenceResult) ==
    [nodes |-> sequenceResult.nodes, edges |-> sequenceResult.edges, subgraphs |-> << >>]
parseMermaidCode(code) ==
    IF IsSequenceDiagram(code)
    THEN WithoutSubgraphs(parseSequenceDiagram(code))
    ELSE parseFlowchart(code)

(***************************************************************************)
(* core/mermaidToReactFlow.ts: layout and assembly.  The coordinates that  *)
(* dagre assigns to flowchart nodes are not part of this model; the        *)
(* structure of its input graphs and of the assembled elements is.         *)
(***************************************************************************)
\* nodes.find(n => n.id === id); the record NoNode stands for undefined
NoNode == [id |-> "", label |-> "", shape |-> "", subgraph |-> ""]
FindNode(nodes, id) ==
    IF \E k \in 1..Len(nodes) : nodes[k].id = id
    THEN nodes[CHOOSE k \in 1..Len(nodes) :
                 nodes[k].id = id /\ \A h \in 1..(k - 1) : nodes[h].id # id]
    ELSE NoNode

\* Phase 1: the keys of the map layoutSubgraphs returns, in insertion order:
\* the subgraphs with at least one node
RECURSIVE LayoutKeys(_, _, _)
LayoutKeys(nodes, subgraphs, k) ==
    IF k > Len(subgraphs) THEN << >>
    ELSE LET rest == LayoutKeys(nodes, subgraphs, k + 1)
             id == subgraphs[k].id
             earlier == \E h \in 1..(k - 1) : subgraphs[h].id = id
         IN  IF (\E n \in 1..Len(nodes) : nodes[n].subgraph = id) /\ ~earlier
             THEN << id >> \o rest ELSE rest

layoutSubgraphs(nodes, edges, subgraphs) == LayoutKeys(nodes, subgraphs, 1)

\* sourceNode?.subgraph || sourceNode?.id
MetaNodeOf(nodes, id) == OrElse(FindNode(nodes, id).subgraph, FindNode(nodes, id).id)

\* "Add edges between containers and standalone nodes"
RECURSIVE MetaEdges(_, _, _, _)
MetaEdges(nodes, edges, k, acc) ==
    IF k > Len(edges) THEN acc
    ELSE LET sourceMetaNode == MetaNodeOf(nodes, edges[k].source)
             targetMetaNode == MetaNodeOf(nodes, edges[k].target)
             hasEdge == \E h \in 1..Len(acc) : acc[h] = << sourceMetaNode, targetMetaNode >>
         IN  IF sourceMetaNode # "" /\ targetMetaNode # ""
                /\ sourceMetaNode # targetMetaNode /\ ~hasEdge
             THEN MetaEdges(nodes, edges, k + 1,
                            Append(acc, << sourceMetaNode, targetMetaNode >>))
             ELSE MetaEdges(nodes, edges, k + 1, acc)

\* Phase 2: the graph handed to dagre
layoutMetaGraph(nodes, edges, subgraphLayouts) ==
    [containers |-> subgraphLayouts,
     standalone |-> LET standaloneNodes == SelectSeq(nodes, LAMBDA n : n.subgraph = "")
                    IN  [k \in 1..Len(standaloneNodes) |-> standaloneNodes[k].id],
     edges |-> MetaEdges(nodes, edges, 1, << >>)]

\* g.nodes(): setNode on an id the graph holds replaces the node of that id
MetaNodes(meta) ==
    { meta.containers[k] : k \in 1..Len(meta.containers) }
        \cup { meta.standalone[k] : k \in 1..Len(meta.standalone) }

InSeq(x, sq) == \E k \in 1..Len(sq) : sq[k] = x

\* a container for every subgraph, laid out or not
ContainersOfAll(subgraphs, subgraphLayouts) ==
    [k \in 1..Len(subgraphs) |->
        [id |-> subgraphs[k].id, type |-> "group", label |-> subgraphs[k].title,
         parentNode |-> "", extent |-> "", shape |-> "",
         draggable |-> TRUE, connectable |-> FALSE, zIndex |-> -1]]
\* "Add subgraph containers"
ContainerElements(subgraphs, subgraphLayouts) ==
    LET all == [k \in 1..Len(subgraphs) |->
                  [id |-> subgraphs[k].id, type |-> "group", label |-> subgraphs[k].title,
                   parentNode |-> "", extent |-> "", shape |-> "",
                   draggable |-> TRUE, connectable |-> FALSE, zIndex |-> -1]]
    IN  SelectSeq(all, LAMBDA el : InSeq(el.id, subgraphLayouts))

\* "Add nodes"
NodeElements(nodes, subgraphLayouts) ==
    [k \in 1..Len(nodes) |->
        LET node == nodes[k]
            parentNode == IF node.subgraph # "" /\ InSeq(node.subgraph, subgraphLayouts)
                          THEN node.subgraph ELSE ""
        IN  [id |-> node.id, type |-> "custom", label |-> node.label,
             parentNode |-> parentNode,
             extent |-> IF parentNode # "" THEN "parent" ELSE "",
             shape |-> node.shape,
             draggable |-> TRUE, connectable |-> TRUE, zIndex |-> 1]]

EdgeColors == << "#1976D2", "#388E3C", "#F57C00", "#7B1FA2", "#C2185B" >>

\* `edge-${edge.source}-${edge.target}-${index}`
FlowEdgeId(edge, index) ==
    "edge-" \o edge.source \o "-" \o edge.target \o "-" \o NumStr(index)

\* the styling with the colour of the first edge for every edge
FlowEdgeElementOneColour(edge, index) ==
    [id |-> "edge-" \o edge.source \o "-" \o edge.target \o "-" \o NumStr(index),
     source |-> edge.source, target |-> edge.target, label |-> edge.label,
     type |-> "smoothstep",
     animated |-> edge.type \in {"-->", "->", "==>", "===>"},
     stroke |-> EdgeColors[1],
     strokeWidth10 |-> CASE edge.type \in {"-->", "->"} -> 25
                         [] edge.type \in {"==>", "===>"} -> 40
                         [] OTHER -> 20,
     strokeDasharray |-> CASE edge.type = "---" -> "8,4"
                           [] edge.type = "-.-" -> "4,4"
                           [] OTHER -> ""]
\* "Create edges with prettier styling"; stroke widths in tenths (2.5 is 25)
FlowEdgeElement(edge, index) ==
    [id |-> FlowEdgeId(edge, index),
     source |-> edge.source, target |-> edge.target, label |-> edge.label,
     type |-> "smoothstep",
     animated |-> edge.type \in {"-->", "->", "==>", "===>"},
     stroke |-> EdgeColors[(index % Len(EdgeColors)) + 1],
     strokeWidth10 |-> CASE edge.type \in {"-->", "->"} -> 25
                         [] edge.type \in {"==>", "===>"} -> 40
                         [] OTHER -> 20,
     strokeDasharray |-> CASE edge.type = "---" -> "8,4"
                           [] edge.type = "-.-" -> "4,4"
                           [] OTHER -> ""]

\* Phase 3
createReactFlowElements(nodes, edges, subgraphs, subgraphLayouts) ==
    [nodes |-> ContainerElements(subgraphs, subgraphLayouts)
                 \o NodeElements(nodes, subgraphLayouts),
     edges |-> [k \in 1..Len(edges) |-> FlowEdgeElement(edges[k], k - 1)]]

layoutGraph(nodes, edges, subgraphs) ==
    createReactFlowElements(nodes, edges, subgraphs,
                            layoutSubgraphs(nodes, edges, subgraphs))

COLUMN_WIDTH == 300
HEADER_Y == 50
LIFELINE_POINT_SPACING == 100
LIFELINE_START_Y == 150

\* Array.prototype.sort (stable) of the headers by metadata.participantOrder
RECURSIVE InsertByOrder(_, _)
InsertByOrder(sorted, n) ==
    IF sorted = << >> THEN << n >>
    ELSE IF sorted[Len(sorted)].metadata.participantOrder <= n.metadata.participantOrder
         THEN Append(sorted, n)
         ELSE Append(InsertByOrder(SubSeq(sorted, 1, Len(sorted) - 1), n),
                     sorted[Len(sorted)])

RECURSIVE SortByOrder(_)
SortByOrder(ns) ==
    IF ns = << >> THEN << >>
    ELSE InsertByOrder(SortByOrder(SubSeq(ns, 1, Len(ns) - 1)), ns[Len(ns)])

SequenceEdgeElement(edge, index) ==
    LET lifeline == /\ Includes(edge.source, "lifeline_")
                    /\ Includes(edge.target, "lifeline_")
                    /\ edge.label = ""
        header == ~lifeline /\ Includes(edge.source, "header_")
        message == ~lifeline /\ ~header /\ edge.label # ""
    IN  [id |-> "edge-" \o NumStr(index),
         source |-> edge.source, target |-> edge.target, label |-> edge.label,
         type |-> IF lifeline \/ header \/ message THEN "straight" ELSE "smoothstep",
         animated |-> message,
         stroke |-> CASE lifeline \/ header -> "#cbd5e1"
                      [] message -> "#3b82f6"
                      [] OTHER -> "#94a3b8",
         strokeWidth10 |-> IF message THEN 30 ELSE 20,
         strokeDasharray |-> IF edge.type = "dashed" THEN "8,8" ELSE "",
         markerEnd |-> edge.label # "",
         labelBgStyle |-> edge.label # ""]

\* the placement with every lifeline point in the row of its point index, the
\* start offset left out
PlaceSequenceFromTop(headerNodes, lifelineNodes, edges) ==
        [nodes |->
            [k \in 1..Len(headerNodes) |->
                [id |-> headerNodes[k].id, type |-> "custom",
                 label |-> headerNodes[k].label, shape |-> "rect",
                 position |-> [x |-> headerNodes[k].metadata.participantOrder * COLUMN_WIDTH,
                               y |-> HEADER_Y]]]
            \o
            [k \in 1..Len(lifelineNodes) |->
                [id |-> lifelineNodes[k].id, type |-> "custom",
                 label |-> "", shape |-> "rect",
                 position |-> [x |-> lifelineNodes[k].metadata.participantOrder * COLUMN_WIDTH,
                               y |-> lifelineNodes[k].metadata.lifelineIndex
                                       * LIFELINE_POINT_SPACING]]],
         edges |-> [k \in 1..Len(edges) |-> SequenceEdgeElement(edges[k], k - 1)]]
\* "Position header nodes" and "Position lifeline nodes", then the styled edges
PlaceSequence(headerNodes, lifelineNodes, edges) ==
        [nodes |->
            [k \in 1..Len(headerNodes) |->
                [id |-> headerNodes[k].id, type |-> "custom",
                 label |-> headerNodes[k].label, shape |-> "rect",
                 position |-> [x |-> headerNodes[k].metadata.participantOrder * COLUMN_WIDTH,
                               y |-> HEADER_Y]]]
            \o
            [k \in 1..Len(lifelineNodes) |->
                [id |-> lifelineNodes[k].id, type |-> "custom",
                 label |-> "", shape |-> "rect",
                 position |-> [x |-> lifelineNodes[k].metadata.participantOrder * COLUMN_WIDTH,
                               y |-> LIFELINE_START_Y
                                     + lifelineNodes[k].metadata.lifelineIndex
                                       * LIFELINE_POINT_SPACING]]],
         edges |-> [k \in 1..Len(edges) |-> SequenceEdgeElement(edges[k], k - 1)]]

layoutSequenceDiagram(nodes, edges) ==
    PlaceSequence(SortByOrder(SelectSeq(nodes, LAMBDA n : StartsWith(n.id, "header_"))),
                  SelectSeq(nodes, LAMBDA n : ~StartsWith(n.id, "header_")
                                              /\ StartsWith(n.id, "lifeline_")),
                  edges)

EmptyData == [nodes |-> << >>, edges |-> << >>]

(***************************************************************************)
(* The geometry of Phase 1 for one subgraph.  Lengths are in tenths of a   *)
(* unit, so that the factor 0.8 and the halves of the source are whole     *)
(* numbers; the arithmetic is exact.                                       *)
(***************************************************************************)
MathMax(a, b) == IF a >= b THEN a ELSE b
MathMin(a, b) == IF a <= b THEN a ELSE b
MaxOf(S) == CHOOSE m \in S : \A n \in S : n <= m
MinOf(S) == CHOOSE m \in S : \A n \in S : m <= n

\* "Calculate dynamic node sizes based on label length"
LabelLines(label) == SplitLines(label)
MaxLineLength(lines) == MaxOf({ Len(lines[k]) : k \in 1..Len(lines) })
BaseWidth(label) == MathMax(100, MathMin(250, MaxLineLength(LabelLines(label)) * 7 + 30))
BaseHeight(label) == MathMax(40, Len(LabelLines(label)) * 18 + 25)
calculateNodeSize(label, shape) ==
    CASE shape = "diamond" ->
            [width |-> MathMax(800, BaseWidth(label) * 8),
             height |-> MathMax(800, BaseHeight(label) * 8)]
      [] shape = "circle" ->
            [width |-> (MathMax(BaseWidth(label), BaseHeight(label)) + 10) * 10,
             height |-> (MathMax(BaseWidth(label), BaseHeight(label)) + 10) * 10]
      [] OTHER -> [width |-> BaseWidth(label) * 10, height |-> BaseHeight(label) * 10]

IdsOf(nodes) == { nodes[k].id : k \in 1..Len(nodes) }
SizeOfNode(nodes, id) ==
    LET node == nodes[CHOOSE k \in 1..Len(nodes) : nodes[k].id = id]
    IN  calculateNodeSize(node.label, node.shape)
\* g.setNode(node.id, { width, height }) for every node of the subgraph
SetNodes(subgraphNodes) ==
    [id \in IdsOf(subgraphNodes) |->
        [x |-> 0, y |-> 0,
         width |-> SizeOfNode(subgraphNodes, id).width,
         height |-> SizeOfNode(subgraphNodes, id).height]]

\* "Calculate bounding box": nodePositions before the offsets, and the box
NodePositions(subgraphNodes, g) ==
    [id \in IdsOf(subgraphNodes) |->
        [x |-> g[id].x, y |-> g[id].y,
         width |-> SizeOfNode(subgraphNodes, id).width,
         height |-> SizeOfNode(subgraphNodes, id).height]]
BoundsOf(pos) ==
    [minX |-> MinOf({ pos[id].x - pos[id].width \div 2 : id \in DOMAIN pos }),
     maxX |-> MaxOf({ pos[id].x + pos[id].width \div 2 : id \in DOMAIN pos }),
     minY |-> MinOf({ pos[id].y - pos[id].height \div 2 : id \in DOMAIN pos }),
     maxY |-> MaxOf({ pos[id].y + pos[id].height \div 2 : id \in DOMAIN pos })]

\* the box with its top-left padding left out of the offsets
NormalizedNoPadding(pos, box) ==
    [nodes |-> [id \in DOMAIN pos |->
                  [pos[id] EXCEPT !.x = @ - box.minX,
                                  !.y = @ - box.minY + SUBGRAPH_HEADER_HEIGHT * 10]],
     width |-> (box.maxX - box.minX) + SUBGRAPH_PADDING * 10 * 2,
     height |-> (box.maxY - box.minY) + SUBGRAPH_PADDING * 10 * 2
                  + SUBGRAPH_HEADER_HEIGHT * 10]
\* "Normalize positions to start from (0, 0) with header space", and the layout
Normalized(pos, box) ==
    [nodes |-> [id \in DOMAIN pos |->
                  [pos[id] EXCEPT !.x = @ + (-box.minX + SUBGRAPH_PADDING * 10),
                                  !.y = @ + (-box.minY + SUBGRAPH_PADDING * 10
                                               + SUBGRAPH_HEADER_HEIGHT * 10)]],
     width |-> (box.maxX - box.minX) + SUBGRAPH_PADDING * 10 * 2,
     height |-> (box.maxY - box.minY) + SUBGRAPH_PADDING * 10 * 2
                  + SUBGRAPH_HEADER_HEIGHT * 10]
SubgraphLayoutOf(subgraphNodes, g) ==
    Normalized(NodePositions(subgraphNodes, g), BoundsOf(NodePositions(subgraphNodes, g)))

\* "Position relative to parent": the top-left corner of a member
RelativePosition(nodeLayout) ==
    [x |-> nodeLayout.x - nodeLayout.width \div 2,
     y |-> nodeLayout.y - nodeLayout.height \div 2]

(***************************************************************************)
(* core/mermaidParser.ts: the diagram extractor                            *)
(***************************************************************************)
\* the chain of includes tests on the lower-cased first line
TypeOfFirstLine(firstLine) ==
    IF Includes(firstLine, "graph") \/ Includes(firstLine, "flowchart") THEN "flowchart"
    ELSE IF Includes(firstLine, "sequencediagram") THEN "sequence"
    ELSE IF Includes(firstLine, "classDiagram") THEN "class"
    ELSE IF Includes(firstLine, "stateDiagram") THEN "state"
    ELSE IF Includes(firstLine, "erDiagram") THEN "er"
    ELSE IF Includes(firstLine, "gantt") THEN "gantt"
    ELSE IF Includes(firstLine, "pie") THEN "pie"
    ELSE "unknown"
detectDiagramType(code) == TypeOfFirstLine(ToLowerCase(Trim(SplitLines(code)[1])))

\* A TLA+ string cannot hold the backquote character: the model writes the
\* backquote as an apostrophe, in the patterns and in the documents alike.
Fence == "'''"
\* /<fence>mermaid\n([\s\S]*?)<fence>/g
MermaidBlockRe ==
    Cat(<< Lit(Fence \o "mermaid\n"), Grp(1, LazyStar(NotChr({}))), Lit(Fence) >>)

\* /^#+\s*/
HeadingMarkRe == Cat(<< Bol, Plus(Chr({"#"})), WsRe >>)

\* "Look backwards from the diagram to find the nearest heading"; lines[i] of the
\* source is lines[i + 1] here
\* line.replace(/^#+\s*/, '').trim()
StripHeadingMark(line, m) == Trim(IF m.found THEN SubSeq(line, m.end, Len(line)) ELSE line)

RECURSIVE HeadingAbove(_, _, _), HeadingAt(_, _, _, _)
HeadingAbove(lines, i, fallback) ==
    IF i < 0 THEN fallback ELSE HeadingAt(lines, i, fallback, Trim(lines[i + 1]))
\* the walk without its early stop: any heading above, however far
HeadingAtAnyDistance(lines, i, fallback, line) ==
    IF StartsWith(line, "#") THEN StripHeadingMark(line, Match(line, HeadingMarkRe))
    ELSE HeadingAbove(lines, i - 1, fallback)
\* line is lines[i] of the source, trimmed
HeadingAt(lines, i, fallback, line) ==
    IF StartsWith(line, "#") THEN StripHeadingMark(line, Match(line, HeadingMarkRe))
    ELSE IF StartsWith(line, Fence) \/ (line = "" /\ i > 0 /\ Trim(lines[i]) = "")
         THEN fallback
         ELSE HeadingAbove(lines, i - 1, fallback)

\* the body of the while loop for one match of mermaidBlockRegex
DiagramInfo(markdown, match, code, type) ==
    LET diagramStartLine == Len(SplitLines(SubSeq(markdown, 1, match.start - 1))) - 1
    IN  [type |-> type,
         code |-> code,
         name |-> HeadingAbove(SplitLines(markdown), diagramStartLine - 1,
                               type \o " diagram"),
         position |-> [start |-> match.start - 1, end |-> match.end - 1]]
DiagramOfCode(markdown, match, code) ==
    DiagramInfo(markdown, match, code, detectDiagramType(code))
DiagramOf(markdown, match) == DiagramOfCode(markdown, match, Trim(Group(markdown, match, 1)))

RECURSIVE ExtractFrom(_, _), ExtractMatch(_, _)
ExtractFrom(markdown, lastIndex) ==
    ExtractMatch(markdown, ExecFrom(MermaidBlockRe, markdown, lastIndex))
\* an if where the while stands: the first block only
ExtractFirstOnly(markdown, match) ==
    IF ~match.found THEN << >> ELSE << DiagramOf(markdown, match) >>
ExtractMatch(markdown, match) ==
    IF ~match.found THEN << >>
    ELSE << DiagramOf(markdown, match) >> \o ExtractFrom(markdown, match.end)

extractMermaidDiagrams(markdown) == ExtractFrom(markdown, 1)

(***************************************************************************)
(* obsidian-plugin/positionStorage.ts                                      *)
(***************************************************************************)
\* String.prototype.charCodeAt, for the characters of the texts at hand: the
\* codes 32..95 and 97..126 in order, and the line feed, tab and return
CodesFrom32 == " !\"#$%&'()*+,-./0123456789:;<=>?@ABCDEFGHIJKLMNOPQRSTUVWXYZ[\\]^_"
CodesFrom97 == "abcdefghijklmnopqrstuvwxyz{|}~"
IndexIn(s, c) == CHOOSE i \in 1..Len(s) : CharAt(s, i) = c
charCodeAt(s, i) ==
    CASE CharAt(s, i) = "\n" -> 10
      [] CharAt(s, i) = "\t" -> 9
      [] CharAt(s, i) = "\r" -> 13
      [] CharAt(s, i) \in CharsOf(CodesFrom97) -> 96 + IndexIn(CodesFrom97, CharAt(s, i))
      [] OTHER -> 31 + IndexIn(CodesFrom32, CharAt(s, i))

\* A 32-bit integer is kept as its two 16-bit halves (two's complement), so
\* that no intermediate value leaves the range of the checker's integers.
Int32(hi, lo) == [hi |-> hi, lo |-> lo]
\* hash = ((hash << 5) - hash) + char; hash = hash & hash: 31 * hash + char
\* in 32 bits
HashStep(hash, char) ==
    Int32((31 * hash.hi + ((31 * hash.lo + char) \div 65536)) % 65536,
          (31 * hash.lo + char) % 65536)
RECURSIVE HashUpTo(_, _)
\* the value of hash after the first n characters
HashUpTo(normalizedCode, n) ==
    IF n = 0 THEN Int32(0, 0)
    ELSE HashStep(HashUpTo(normalizedCode, n - 1), charCodeAt(normalizedCode, n))
\* Math.abs of a 32-bit integer, as an unsigned value of up to 2^31
MathAbs(hash) ==
    IF hash.hi < 32768 THEN hash
    ELSE Int32((65536 - hash.hi - (IF hash.lo = 0 THEN 0 ELSE 1)) % 65536,
               (65536 - hash.lo) % 65536)
\* Number.prototype.toString(36)
Base36Digits == "0123456789abcdefghijklmnopqrstuvwxyz"
RECURSIVE ToString36(_)
ToString36(n) ==
    LET upper == (n.hi % 36) * 65536 + n.lo
    IN  IF n.hi = 0 /\ n.lo < 36 THEN CharAt(Base36Digits, n.lo + 1)
        ELSE ToString36(Int32(n.hi \div 36, upper \div 36))
               \o CharAt(Base36Digits, (upper % 36) + 1)
HashOfNormalized(normalizedCode) ==
    ToString36(MathAbs(HashUpTo(normalizedCode, Len(normalizedCode))))
hashMermaidCode(code) == HashOfNormalized(Trim(code))

(***************************************************************************)
(* Source documents.  A conversion request is drawn as a structured        *)
(* document (a header line and body lines) and handed to the pipeline as   *)
(* the text Render writes for it; the pipeline sees the text only.         *)
(***************************************************************************)
Ref(id, def) == [id |-> id, def |-> def]
NoRef == Ref("", "")
MkLine(kind, a, arrow, label, b) ==
    [kind |-> kind, a |-> a, arrow |-> arrow, label |-> label, b |-> b]

EdgeLine(a, arrow, label, b) == MkLine("edge", a, arrow, label, b)
NodeLine(a)                  == MkLine("node", a, "", "", NoRef)
\* form is what follows the id on the line: "", "[Title]" or " [Title]"
SubgraphLine(id, form)       == MkLine("subgraph", Ref(id, form), "", "", NoRef)
EndLine                      == MkLine("end", NoRef, "", "", NoRef)
ParticipantLine(id, alias)   == MkLine("participant", Ref(id, ""), "", alias, NoRef)
MessageLine(a, arrow, b, text) == MkLine("message", Ref(a, ""), arrow, text, Ref(b, ""))
RawLine(text)                == MkLine("raw", NoRef, "", text, NoRef)

RenderLine(l) ==
    CASE l.kind = "edge" ->
            l.a.id \o l.a.def \o " " \o l.arrow
              \o (IF l.label = "" THEN "" ELSE "|" \o l.label \o "|")
              \o " " \o l.b.id \o l.b.def
      [] l.kind = "node" -> l.a.id \o l.a.def
      [] l.kind = "subgraph" -> "subgraph " \o l.a.id \o l.a.def
      [] l.kind = "end" -> "end"
      [] l.kind = "participant" ->
            "participant " \o l.a.id \o (IF l.label = "" THEN "" ELSE " as " \o l.label)
      [] l.kind = "message" -> l.a.id \o l.arrow \o l.b.id \o ": " \o l.label
      [] OTHER -> l.label

Doc(header, lines) == [header |-> header, lines |-> lines]
Render(doc) ==
    JoinLines(<< doc.header >> \o [k \in 1..Len(doc.lines) |-> RenderLine(doc.lines[k])])

\* sequences of at most n elements of S
SeqsUpTo(S, n) == UNION { [1..k -> S] : k \in 0..n }

MaxFlowLines == 2
MaxSeqLines == 2

BracketForms == {"{Decision}", "((Start))", "([Ok])", "[Do]", "(Go)"}

FlowLines ==
    { NodeLine(Ref("B", def)) : def \in BracketForms \cup {""} }
    \cup { EdgeLine(Ref("A", ""), "-->", label, Ref("B", "")) : label \in {"", "yes"} }
    \cup { EdgeLine(Ref("A", ""), "---", "", Ref("B", "")),
           EdgeLine(Ref("AB", "{Go}"), "-->", "", Ref("B", "[Do]")),
           EdgeLine(Ref("AB", "{Go}"), "-->", "", Ref("B", "")),
           EdgeLine(Ref("B", "((Start))"), "==>", "", Ref("A", "")),
           SubgraphLine("S1", " [Group One]"),
           EndLine }

SeqLines ==
    { ParticipantLine("A", ""), ParticipantLine("B", ""), ParticipantLine("B", "Bee"),
      ParticipantLine("C", ""),
      MessageLine("A", "->>", "B", "Hi"), MessageLine("B", "-->>", "A", "Ok"),
      MessageLine("C", "->>", "A", "Yo"), MessageLine("A", "-)", "C", "Go"),
      MessageLine("B", "->", "D", "No") }

\* the example sources of the specification's testable properties
SubgraphExample ==
    Doc("graph TD", << SubgraphLine("S1", "[Group One]"),
                       EdgeLine(Ref("A", ""), "-->", "", Ref("B", "")),
                       EndLine,
                       EdgeLine(Ref("C", ""), "-->", "", Ref("A", "")) >>)
\* an edge that ends at a subgraph, and a subgraph named like its first node
EdgeToSubgraph ==
    Doc("graph TD", << SubgraphLine("S1", ""),
                       EdgeLine(Ref("A", ""), "-->", "", Ref("B", "")),
                       EndLine,
                       EdgeLine(Ref("C", ""), "-->", "", Ref("S1", "")) >>)
SubgraphNamedLikeNode ==
    Doc("graph TD", << SubgraphLine("A", ""),
                       EdgeLine(Ref("A", ""), "-->", "", Ref("B", "")),
                       EndLine >>)
\* a node that an edge line names before the subgraph that later uses it
NamedBeforeSubgraph ==
    Doc("graph TD", << EdgeLine(Ref("B", "((Start))"), "==>", "", Ref("A", "")),
                       SubgraphLine("S1", ""),
                       EdgeLine(Ref("A", ""), "-->", "", Ref("B", "")),
                       EndLine >>)
\* one edge for each kind of arrow, more edges than the palette has colours
ArrowKinds ==
    Doc("graph TD", << EdgeLine(Ref("A", ""), "-->", "", Ref("B", "")),
                       EdgeLine(Ref("B", ""), "->", "", Ref("C", "")),
                       EdgeLine(Ref("C", ""), "==>", "", Ref("D", "")),
                       EdgeLine(Ref("D", ""), "===>", "", Ref("E", "")),
                       EdgeLine(Ref("E", ""), "---", "", Ref("F", "")),
                       EdgeLine(Ref("F", ""), "-.-", "yes", Ref("G", "")),
                       EdgeLine(Ref("G", ""), "===", "", Ref("H", "")),
                       EdgeLine(Ref("H", ""), "~", "", Ref("A", "")) >>)
\* labels that carry HTML: line breaks in three spellings and other tags
HtmlLabels ==
    Doc("graph TD", << NodeLine(Ref("B", "[Do<br/>it <b>now</b>]")),
                       EdgeLine(Ref("C", "{ Wait<BR>here }"), "-->", "", Ref("D", "(<i>Go</i><br />)")) >>)
SequenceExample ==
    Doc("sequenceDiagram", << ParticipantLine("Alice", ""), ParticipantLine("Bob", ""),
                              MessageLine("Alice", "->>", "Bob", "Hello") >>)
\* a participant whose id begins like the id of a header node
HeaderNamed ==
    Doc("sequenceDiagram", << MessageLine("header_A", "-->>", "B", "Hi"),
                              MessageLine("B", "->>", "header_A", "Ok") >>)
\* declarations standing after the messages that use them
LateDeclarations ==
    Doc("sequenceDiagram", << MessageLine("C", "->>", "A", "Yo"),
                              ParticipantLine("B", "Bee"),
                              MessageLine("D", "-->>", "C", "Ok"),
                              ParticipantLine("A", "") >>)

FlowDocs == { Doc("graph TD", ls) : ls \in SeqsUpTo(FlowLines, MaxFlowLines) }
              \cup { SubgraphExample, EdgeToSubgraph, SubgraphNamedLikeNode,
                     NamedBeforeSubgraph, HtmlLabels, ArrowKinds }
SeqDocs == { Doc("sequenceDiagram", ls) : ls \in SeqsUpTo(SeqLines, MaxSeqLines) }
             \cup { SequenceExample, LateDeclarations, HeaderNamed }

UnsupportedHeaders == {"classDiagram", "stateDiagram", "erDiagram", "gantt", "pie"}
OtherLines ==
    { RawLine("title Plan"), RawLine("Still --> Moving"), RawLine("Animal <|-- Duck"),
      RawLine("section Design"), RawLine("CUSTOMER ||--o{ ORDER : places") }
OtherDocs == { Doc(h, ls) : h \in UnsupportedHeaders, ls \in SeqsUpTo(OtherLines, 1) }

Docs == FlowDocs \cup SeqDocs \cup OtherDocs

\* Markdown documents: a sequence of fenced blocks, each with an optional
\* heading, the lines that stand between the heading and the fence, and the
\* first line of the block's code as a diagram keyword in one of three spellings
Keywords == {"graph", "flowchart", "sequenceDiagram", "classDiagram", "stateDiagram",
             "erDiagram", "gantt", "pie", "journey"}
Spellings == {"as written", "lower case", "upper case"}
Headings == {"", "# Title", "## Login flow"}
Gaps == {<< >>, << "" >>, << "Some text" >>}

ToUpperCase(s) == LET up(i) == UpperOfChar(CharAt(s, i)) IN StrCat(up, 1, Len(s))
Spell(keyword, spelling) ==
    CASE spelling = "lower case" -> ToLowerCase(keyword)
      [] spelling = "upper case" -> ToUpperCase(keyword)
      [] OTHER -> keyword

Block(heading, gap, keyword, spelling) ==
    [heading |-> heading, gap |-> gap, keyword |-> keyword, spelling |-> spelling]
RenderBlock(b) ==
    (IF b.heading = "" THEN "" ELSE b.heading \o "\n")
      \o (LET gapLine(i) == b.gap[i] \o "\n" IN StrCat(gapLine, 1, Len(b.gap)))
      \o Fence \o "mermaid\n" \o Spell(b.keyword, b.spelling) \o "\nA --> B\n" \o Fence \o "\n"
Blocks == { Block(h, g, k, sp) : h \in Headings, g \in Gaps, k \in Keywords, sp \in Spellings }

\* what may stand between a heading and the fence: blank lines, text, the
\* fence of another code block, a nearer heading
MaxGapLines == 2
GapLines == {"", "Some text", Fence, "## Near"}
NamedBlocks == { Block(h, g, "graph", "as written") :
                   h \in Headings, g \in SeqsUpTo(GapLines, MaxGapLines) }
\* the blocks of the documents with two blocks
TwinBlocks == { Block("", << >>, "graph", "as written"),
                Block("# Title", << >>, "graph", "as written"),
                Block("", << "" >>, "sequenceDiagram", "as written") }
RenderBlocks(bs) == LET rendered(k) == RenderBlock(bs[k]) IN StrCat(rendered, 1, Len(bs))
Markdowns == { << b >> : b \in Blocks \cup NamedBlocks }
               \cup { << >> }
               \cup { << b1, b2 >> : b1 \in TwinBlocks, b2 \in TwinBlocks }

(***************************************************************************)
(* obsidian-plugin: the view and the wrapper component, their pure parts   *)
(***************************************************************************)
\* The nodes of a component state: their ids in order, and for each node
\* whether it stands where the layout put it ("auto") or where a drag left it
\* ("moved").  The field `of` is the source text the nodes were converted
\* from; the program keeps no such field.
NodesOf(of, ids, pos) == [of |-> of, ids |-> ids, pos |-> pos]
NoNodes == NodesOf("", << >>, << >>)
\* { [nodeId]: NodePosition }, with the text its nodes were converted from
PositionsOf(of, pos) == [of |-> of, pos |-> pos]
NoPositions == PositionsOf("", [id \in {} |-> "auto"])

\* the last node with the id decides: positions[node.id] = ... in a forEach
LastWithId(nodes, id) ==
    CHOOSE k \in 1..Len(nodes.ids) :
        /\ nodes.ids[k] = id
        /\ \A j \in (k + 1)..Len(nodes.ids) : nodes.ids[j] # id
extractPositions(nodes) ==
    PositionsOf(nodes.of,
                [id \in { nodes.ids[k] : k \in 1..Len(nodes.ids) } |->
                    nodes.pos[LastWithId(nodes, id)]])

\* getPositions answers undefined for a hash without entry and applySavedPositions
\* returns the nodes for it, as it does for an entry without positions
applySavedPositions(nodes, savedPositions) ==
    [nodes EXCEPT !.pos = [k \in 1..Len(nodes.ids) |->
        IF nodes.ids[k] \in DOMAIN savedPositions.pos
        THEN savedPositions.pos[nodes.ids[k]]
        ELSE nodes.pos[k]]]

\* the result of convertMermaidToReactFlow(code) when nothing throws
LayoutOfParsed(code, p) ==
    IF Len(p.nodes) = 0 THEN EmptyData
    ELSE IF IsSequenceDiagram(code) THEN layoutSequenceDiagram(p.nodes, p.edges)
    ELSE layoutGraph(p.nodes, p.edges, p.subgraphs)
ConvertedData(code) == LayoutOfParsed(code, parseMermaidCode(code))
\* data.nodes as the component holds them
NodesOfData(code, d) ==
    NodesOf(code, [k \in 1..Len(d.nodes) |-> d.nodes[k].id],
                  [k \in 1..Len(d.nodes) |-> "auto"])

\* /\s+/g
SpacesRe == Plus(Chr(SpaceChar))
\* const normalize = (code) => code.replace(/\s+/g, ' ').trim()
normalize(code) == Trim(ReplaceAll(code, SpacesRe, " "))
isSimilar(code1, code2) == normalize(code1) = normalize(code2)

\* /^graph\s+(TD|TB|BT|RL|LR)/i and /^flowchart\s+(TD|TB|BT|RL|LR)/i
DirectionsRe == Alt(<< LitI("TD"), LitI("TB"), LitI("BT"), LitI("RL"), LitI("LR") >>)
GraphDirRe == Cat(<< Bol, LitI("graph"), SpacesRe, DirectionsRe >>)
FlowchartDirRe == Cat(<< Bol, LitI("flowchart"), SpacesRe, DirectionsRe >>)
isSupportedDiagram(blockCode) ==
    \/ StartsWith(blockCode, "graph ")
    \/ StartsWith(blockCode, "flowchart ")
    \/ StartsWith(blockCode, "sequenceDiagram")
    \/ Match(blockCode, GraphDirRe).found
    \/ Match(blockCode, FlowchartDirRe).found

\* the loop of refreshFromFile over content.matchAll(mermaidRegex), from the
\* match at hand on: the code the view holds afterwards
RECURSIVE RefreshFrom(_, _, _), RefreshMatch(_, _, _, _)
RefreshFrom(code, content, lastIndex) ==
    RefreshMatch(code, content, ExecFrom(MermaidBlockRe, content, lastIndex), Trim(code))
RefreshBlock(code, content, match, currentCode, blockCode) ==
    IF isSupportedDiagram(blockCode)
       /\ (blockCode = currentCode \/ isSimilar(currentCode, blockCode))
    THEN (IF blockCode # currentCode THEN blockCode ELSE code)
    ELSE RefreshFrom(code, content, match.end)
RefreshMatch(code, content, match, currentCode) ==
    IF ~match.found THEN code
    ELSE RefreshBlock(code, content, match, currentCode, Trim(Group(content, match, 1)))
refreshFromFile(code, content) == RefreshFrom(code, content, 1)

\* extractMermaidFromFile: the supported diagrams among content.matchAll(mermaidRegex),
\* from the match at hand on, each as match[1].trim()
RECURSIVE SupportedFrom(_, _), SupportedMatch(_, _)
SupportedFrom(content, lastIndex) ==
    SupportedMatch(content, ExecFrom(MermaidBlockRe, content, lastIndex))
SupportedBlock(content, match, blockCode) ==
    (IF isSupportedDiagram(blockCode) THEN << blockCode >> ELSE << >>)
      \o SupportedFrom(content, match.end)
SupportedMatch(content, match) ==
    IF ~match.found THEN << >>
    ELSE SupportedBlock(content, match, Trim(Group(content, match, 1)))
\* the answer for a block index ("" stands for null)
AtIndex(supportedDiagrams, blockIndex) ==
    IF blockIndex >= 0 /\ blockIndex < Len(supportedDiagrams)
    THEN supportedDiagrams[blockIndex + 1]
    ELSE ""
extractMermaidFromFile(content, blockIndex) == AtIndex(SupportedFrom(content, 1), blockIndex)

\* Array.from(allMermaidBlocks).indexOf(block): the blocks of the page stand in
\* the order of the file
IndexInPage(page, block) == Cardinality({ b \in page : b < block })

\* The active note of the live preview: mermaid blocks one after the other
MaxNoteBlocks == 2
NoteCodes == {"graph TD\nA", "sequenceDiagram", "pie"}
Notes == SeqsUpTo(NoteCodes, MaxNoteBlocks) \ {<< >>}
NoteContent(bs) ==
    LET fenced(k) == Fence \o "mermaid\n" \o bs[k] \o "\n" \o Fence \o "\n"
    IN  StrCat(fenced, 1, Len(bs))

\* The one source file of the vault: a note with a heading and one mermaid block.
SourcePath == "note.md"
FileContent(text) == "# Note\n\n" \o Fence \o "mermaid\n" \o text \o "\n" \o Fence \o "\n"
\* the texts the block takes: a diagram, the same diagram with wider spacing
\* inside a line, and the diagram after an edit of a node
CodeOpened == "graph TD\nA --> B"
CodeRespaced == "graph TD\nA  -->  B"
CodeEdited == "graph TD\nA --> C"
BlockTexts == {CodeOpened, CodeRespaced, CodeEdited}
\* a session of the user: at most so many clicks, drags and edits of the note
MaxGestures == 5

\* The members of one subgraph: at most so many nodes, each with one of two
\* labels and one of three shapes; the centre that dagre gives a node is any
\* point of a small grid (tenths of a unit)
MaxMembers == 2
MemberIds == << "N1", "N2", "N3" >>
MemberLabels == {"A", "Decide now or\nlater\nor never"}
MemberShapes == {"rect", "diamond", "circle"}
MemberKinds == { [label |-> l, shape |-> sh] : l \in MemberLabels, sh \in MemberShapes }
MembersOf(kinds) ==
    [k \in 1..Len(kinds) |->
        [id |-> MemberIds[k], label |-> kinds[k].label, shape |-> kinds[k].shape,
         subgraph |-> "S1"]]
CentreXs == {0, 1255}
CentreYs == {-400, 900}

(***************************************************************************)
(* JSON values, JSON.stringify and JSON.parse.  A value is a record of one *)
(* layout whatever its type: t names the type, s holds a string, n a       *)
(* number, items the elements of an array or the member values of an       *)
(* object, keys the member names of an object.  Strings with escape        *)
(* sequences and numbers other than natural numbers are not among the      *)
(* texts of this model.                                                    *)
(***************************************************************************)
JValue(t, str, n, items, keys) == [t |-> t, s |-> str, n |-> n, items |-> items, keys |-> keys]
Undefined == JValue("undefined", "", 0, << >>, << >>)
JNull == JValue("null", "", 0, << >>, << >>)
JTrue == JValue("true", "", 0, << >>, << >>)
JFalse == JValue("false", "", 0, << >>, << >>)
JStr(str) == JValue("string", str, 0, << >>, << >>)
JNum(n) == JValue("number", "", n, << >>, << >>)
JArr(items) == JValue("array", "", 0, items, << >>)
JObj(keys, items) == JValue("object", "", 0, items, keys)

HasKey(obj, key) == \E k \in 1..Len(obj.keys) : obj.keys[k] = key
KeyIndex(obj, key) == CHOOSE k \in 1..Len(obj.keys) : obj.keys[k] = key
\* obj.key and obj.key = v
Get(obj, key) == IF HasKey(obj, key) THEN obj.items[KeyIndex(obj, key)] ELSE Undefined
SetKey(obj, key, v) ==
    IF HasKey(obj, key) THEN [obj EXCEPT !.items[KeyIndex(obj, key)] = v]
    ELSE [obj EXCEPT !.keys = Append(@, key), !.items = Append(@, v)]
\* { ...target, ...source }
RECURSIVE SpreadFrom(_, _, _)
SpreadFrom(target, source, k) ==
    IF k > Len(source.keys) THEN target
    ELSE SpreadFrom(SetKey(target, source.keys[k], source.items[k]), source, k + 1)
Spread(target, source) == SpreadFrom(target, source, 1)
\* !!v
Truthy(v) ==
    /\ v.t \notin {"undefined", "null", "false"}
    /\ ~(v.t = "string" /\ v.s = "")
    /\ ~(v.t = "number" /\ v.n = 0)
\* `${v}` for the values a name takes here
ToStr(v) ==
    CASE v.t = "string" -> v.s
      [] v.t = "number" -> NumStr(v.n)
      [] v.t = "object" -> "[object Object]"
      [] OTHER -> v.t

\* JSON.stringify(v): members whose value is undefined are left out
RECURSIVE Stringify(_)
Stringify(v) ==
    CASE v.t = "string" -> "\"" \o v.s \o "\""
      [] v.t = "number" -> NumStr(v.n)
      [] v.t = "array" ->
            LET item(k) == (IF k = 1 THEN "" ELSE ",") \o Stringify(v.items[k])
            IN  "[" \o StrCat(item, 1, Len(v.items)) \o "]"
      [] v.t = "object" ->
            LET kept == SelectSeq([k \in 1..Len(v.keys) |-> k],
                                  LAMBDA k : v.items[k].t # "undefined")
                member(i) == (IF i = 1 THEN "" ELSE ",")
                               \o "\"" \o v.keys[kept[i]] \o "\":"
                               \o Stringify(v.items[kept[i]])
            IN  "{" \o StrCat(member, 1, Len(kept)) \o "}"
      [] OTHER -> v.t

\* JSON.parse: a recursive descent over the text; ok = FALSE stands for the
\* SyntaxError, end is the place after the value
Failed == [ok |-> FALSE, end |-> 0, v |-> Undefined]
ParsedAt(end, v) == [ok |-> TRUE, end |-> end, v |-> v]
SkipWs(text, i) ==
    CHOOSE j \in i..(Len(text) + 1) :
        /\ j = Len(text) + 1 \/ CharAt(text, j) \notin SpaceChar
        /\ \A h \in i..(j - 1) : CharAt(text, h) \in SpaceChar
LiteralAt(text, i, word) ==
    i + Len(word) - 1 <= Len(text) /\ SubSeq(text, i, i + Len(word) - 1) = word
\* the closing quote of the string that opens at i, 0 if there is none
ClosingQuote(text, i) ==
    IF \E j \in (i + 1)..Len(text) : CharAt(text, j) = "\""
    THEN CHOOSE j \in (i + 1)..Len(text) :
            CharAt(text, j) = "\"" /\ \A h \in (i + 1)..(j - 1) : CharAt(text, h) # "\""
    ELSE 0
StringAt(text, i, close) ==
    IF close = 0 THEN Failed ELSE ParsedAt(close + 1, JStr(SubSeq(text, i + 1, close - 1)))
DigitsEnd(text, i) ==
    CHOOSE j \in i..(Len(text) + 1) :
        /\ j = Len(text) + 1 \/ CharAt(text, j) \notin CharsOf(DigitChars)
        /\ \A h \in i..(j - 1) : CharAt(text, h) \in CharsOf(DigitChars)
RECURSIVE ParseInt(_)
ParseInt(digits) ==
    IF digits = "" THEN 0
    ELSE ParseInt(SubSeq(digits, 1, Len(digits) - 1)) * 10
           + (CHOOSE d \in 0..9 : CharAt(DigitChars, d + 1) = CharAt(digits, Len(digits)))
NumberAt(text, i, end) == ParsedAt(end, JNum(ParseInt(SubSeq(text, i, end - 1))))

RECURSIVE ParseValue(_, _), ValueAt(_, _), ArrayAt(_, _), ItemsFrom(_, _, _),
          ItemsAfter(_, _, _), ItemsNext(_, _, _), ObjectAt(_, _), MembersFrom(_, _, _),
          MemberKey(_, _, _), MemberColon(_, _, _, _), MemberValue(_, _, _, _),
          MembersNext(_, _, _)
ParseValue(text, from) == ValueAt(text, SkipWs(text, from))
ValueAt(text, i) ==
    IF i > Len(text) THEN Failed
    ELSE CASE CharAt(text, i) = "\"" -> StringAt(text, i, ClosingQuote(text, i))
           [] CharAt(text, i) = "[" -> ArrayAt(text, SkipWs(text, i + 1))
           [] CharAt(text, i) = "{" -> ObjectAt(text, SkipWs(text, i + 1))
           [] CharAt(text, i) \in CharsOf(DigitChars) -> NumberAt(text, i, DigitsEnd(text, i))
           [] LiteralAt(text, i, "null") -> ParsedAt(i + 4, JNull)
           [] LiteralAt(text, i, "true") -> ParsedAt(i + 4, JTrue)
           [] LiteralAt(text, i, "false") -> ParsedAt(i + 5, JFalse)
           [] OTHER -> Failed
ArrayAt(text, j) ==
    IF j <= Len(text) /\ CharAt(text, j) = "]" THEN ParsedAt(j + 1, JArr(<< >>))
    ELSE ItemsFrom(text, j, << >>)
ItemsFrom(text, i, acc) == ItemsAfter(text, acc, ParseValue(text, i))
ItemsAfter(text, acc, r) ==
    IF ~r.ok THEN Failed ELSE ItemsNext(text, Append(acc, r.v), SkipWs(text, r.end))
ItemsNext(text, acc, j) ==
    IF j > Len(text) THEN Failed
    ELSE CASE CharAt(text, j) = "," -> ItemsFrom(text, j + 1, acc)
           [] CharAt(text, j) = "]" -> ParsedAt(j + 1, JArr(acc))
           [] OTHER -> Failed
ObjectAt(text, j) ==
    IF j <= Len(text) /\ CharAt(text, j) = "}" THEN ParsedAt(j + 1, JObj(<< >>, << >>))
    ELSE MembersFrom(text, j, JObj(<< >>, << >>))
MembersFrom(text, i, obj) ==
    IF i > Len(text) \/ CharAt(text, i) # "\"" THEN Failed
    ELSE MemberKey(text, obj, StringAt(text, i, ClosingQuote(text, i)))
MemberKey(text, obj, key) ==
    IF ~key.ok THEN Failed ELSE MemberColon(text, obj, key.v.s, SkipWs(text, key.end))
MemberColon(text, obj, name, j) ==
    IF j > Len(text) \/ CharAt(text, j) # ":" THEN Failed
    ELSE MemberValue(text, obj, name, ParseValue(text, j + 1))
MemberValue(text, obj, name, r) ==
    IF ~r.ok THEN Failed ELSE MembersNext(text, SetKey(obj, name, r.v), SkipWs(text, r.end))
MembersNext(text, obj, j) ==
    IF j > Len(text) THEN Failed
    ELSE CASE CharAt(text, j) = "," -> MembersFrom(text, SkipWs(text, j + 1), obj)
           [] CharAt(text, j) = "}" -> ParsedAt(j + 1, obj)
           [] OTHER -> Failed
WholeText(text, r) == IF r.ok /\ SkipWs(text, r.end) = Len(text) + 1 THEN r ELSE Failed
JSONParse(text) == WholeText(text, ParseValue(text, 1))

(***************************************************************************)
(* core/diagramStorage.ts.  A function of the store is modelled by what it *)
(* leaves in localStorage (item) and what it returns (result).             *)
(***************************************************************************)
\* `diagram_${Date.now()}_${Math.random().toString(36).substr(2, 9)}`
generateId(time, random) == "diagram_" \o NumStr(time) \o "_" \o random
\* new Date().toISOString(), as the number of the millisecond
toISOString(time) == "T" \o NumStr(time)

ParsedOrEmpty(r) == IF r.ok THEN r.v ELSE JArr(<< >>)
getAllDiagrams(stored) == IF stored = "" THEN JArr(<< >>) ELSE ParsedOrEmpty(JSONParse(stored))

NewDiagram(diagram, time, random) ==
    SetKey(SetKey(SetKey(diagram, "id", JStr(generateId(time, random))),
                  "createdAt", JStr(toISOString(time))),
           "updatedAt", JStr(toISOString(time)))
Pushed(savedDiagrams, newDiagram) ==
    [item |-> Stringify(JArr(Append(savedDiagrams.items, newDiagram))),
     result |-> newDiagram]
saveDiagram(stored, diagram, time, random) ==
    Pushed(getAllDiagrams(stored), NewDiagram(diagram, time, random))

\* d.id === id
IdIs(d, id) == Get(d, "id").t = "string" /\ Get(d, "id").s = id
\* savedDiagrams.findIndex(d => d.id === id), from 1; 0 stands for -1
FindIndex(items, id) ==
    IF \E k \in 1..Len(items) : IdIs(items[k], id)
    THEN CHOOSE k \in 1..Len(items) :
            IdIs(items[k], id) /\ \A h \in 1..(k - 1) : ~IdIs(items[h], id)
    ELSE 0
Updated(d, updates, time) ==
    SetKey(Spread(d, updates), "updatedAt", JStr(toISOString(time)))
UpdateAt(stored, savedDiagrams, index, updates, time) ==
    IF index = 0 THEN [item |-> stored, result |-> JNull]
    ELSE [item |-> Stringify([savedDiagrams EXCEPT
                                 !.items[index] = Updated(@, updates, time)]),
          result |-> Updated(savedDiagrams.items[index], updates, time)]
UpdateIn(stored, savedDiagrams, id, updates, time) ==
    UpdateAt(stored, savedDiagrams, FindIndex(savedDiagrams.items, id), updates, time)
updateDiagram(stored, id, updates, time) ==
    UpdateIn(stored, getAllDiagrams(stored), id, updates, time)

Filtered(stored, savedDiagrams, filtered) ==
    IF Len(filtered) = Len(savedDiagrams.items) THEN [item |-> stored, result |-> JFalse]
    ELSE [item |-> Stringify(JArr(filtered)), result |-> JTrue]
DeleteFrom(stored, savedDiagrams, id) ==
    Filtered(stored, savedDiagrams, SelectSeq(savedDiagrams.items, LAMBDA d : ~IdIs(d, id)))
deleteDiagram(stored, id) == DeleteFrom(stored, getAllDiagrams(stored), id)

\* the argument of saveDiagram in importDiagram
ImportedDiagram(parsed) ==
    JObj(<< "name", "nodes", "edges", "originalMermaidCode", "metadata" >>,
         << JStr(ToStr(Get(parsed, "name")) \o " (Imported)"), Get(parsed, "nodes"),
            Get(parsed, "edges"), Get(parsed, "originalMermaidCode"),
            Get(parsed, "metadata") >>)
\* the import without the validation of the structure
ImportUnchecked(stored, r, time, random) ==
    IF ~r.ok \/ r.v.t = "null" THEN [item |-> stored, result |-> JNull]
    ELSE saveDiagram(stored, ImportedDiagram(r.v), time, random)
\* the try block from the return of JSON.parse on; every throw ends in the
\* catch block, which returns null
ImportParsed(stored, r, time, random) ==
    IF ~r.ok \/ r.v.t = "null" THEN [item |-> stored, result |-> JNull]
    ELSE IF ~Truthy(Get(r.v, "nodes")) \/ ~Truthy(Get(r.v, "edges"))
            \/ ~Truthy(Get(r.v, "name"))
         THEN [item |-> stored, result |-> JNull]
         ELSE saveDiagram(stored, ImportedDiagram(r.v), time, random)
importDiagram(stored, jsonString, time, random) ==
    ImportParsed(stored, JSONParse(jsonString), time, random)

\* The calls of a session with the store: at most so many, within so many
\* milliseconds; Math.random contributes the same text to every id, the case
\* in which only the clock tells two ids apart
MaxCalls == 3
MaxNow == 1
Randoms == {"k3x"}
KnownIds == { generateId(time, random) : time \in 0..MaxNow, random \in Randoms }
CallIds == KnownIds \cup {"diagram_9_zz"}
\* the diagram the application saves
FlowDiagram ==
    JObj(<< "name", "nodes", "edges" >>,
         << JStr("Flow"), JArr(<< JObj(<< "id" >>, << JStr("A") >>) >>), JArr(<< >>) >>)
Updates == { JObj(<< "name" >>, << JStr("Renamed") >>),
             JObj(<< "id" >>, << JStr(generateId(1, "k3x")) >>) }
\* the texts handed to importDiagram: objects written with line breaks and
\* some of the members id, name, nodes, edges, and texts that are no objects.
\* lacks says whether the text is no JSON or lacks nodes, edges or name.
MemberText(key) ==
    CASE key = "id" -> "\"id\": \"diagram_0_k3x\""
      [] key = "name" -> "\"name\": \"Flow\""
      [] key = "nodes" -> "\"nodes\": [{\"id\": \"A\"}]"
      [] key = "edges" -> "\"edges\": []"
      [] OTHER -> "\"name\": \"\""
ObjectText(members) ==
    LET member(k) == (IF k = 1 THEN "\n  " ELSE ",\n  ") \o MemberText(members[k])
    IN  "{" \o StrCat(member, 1, Len(members)) \o "\n}"
ImportText(text, lacks) == [text |-> text, lacks |-> lacks]
ImportInputs ==
    { ImportText(ObjectText(<< "id", "name", "nodes", "edges" >>), FALSE),
      ImportText(ObjectText(<< "nodes", "edges", "empty name" >>), FALSE),
      ImportText(ObjectText(<< "id", "nodes", "edges" >>), TRUE),
      ImportText(ObjectText(<< "name", "edges" >>), TRUE),
      ImportText(ObjectText(<< "name", "nodes" >>), TRUE),
      ImportText("{\"name\": \"Flow\", \"nodes\": []", TRUE),
      ImportText("null", TRUE) }

(***************************************************************************)
(* The calls: convertMermaidToReactFlow(mermaidCode), an async function    *)
(* whose body runs in one piece, followed here through its stages, and     *)
(* extractMermaidDiagrams(markdown).  A behaviour follows one call.        *)
(***************************************************************************)
VARIABLES
    doc,          \* the document of the conversion request (not seen by the pipeline)
    mermaidCode,  \* the argument of convertMermaidToReactFlow
    pc,           \* "idle" | "parsed" | "settled" | "extracted"
    parsed,       \* what parseMermaidCode returned
    metaGraph,    \* the Phase-2 graph (flowcharts with nodes)
    data,         \* the ReactFlowData the promise settled with
    settled,      \* "none" | "resolved" | "rejected"
    caught,       \* whether the catch block ran
    blocks,       \* the blocks of the extraction request (not seen by the extractor)
    markdown,     \* the argument of extractMermaidDiagrams
    diagrams      \* what extractMermaidDiagrams returned

\* The Obsidian view (MermaidReactFlowView) and the React component it renders
\* (ReactFlowDiagramWrapper), with the plugin's saved positions and the one
\* source file of the vault.
VARIABLES
    viewCode,           \* MermaidReactFlowView.mermaidCode, the mermaidCode prop
    sourceFilePath,     \* MermaidReactFlowView.sourceFilePath
    autoRefreshEnabled, \* MermaidReactFlowView.autoRefreshEnabled
    fileWatcherRef,     \* MermaidReactFlowView.fileWatcherRef (0 is null)
    vaultHandlers,      \* the 'modify' handlers registered with the vault
    fileText,           \* the code of the mermaid block in the source file
    reading,            \* the calls of refreshFromFile that await vault.read
    shownCode,          \* the mermaidCode the wrapper's effect last ran for
    diagramHashRef,     \* diagramHashRef.current
    flowData,           \* flowData.nodes
    originalNodesRef,   \* originalNodesRef.current
    saveTimeout,        \* the nodes the pending debounced save holds
    positions,          \* plugin.data.positions
    sinceReset,         \* "none" | "clean" | "touched": what followed the last Reset
    watched,            \* every edit since the diagram was opened reached the watcher
    changedWhileOff,    \* a file modification changed the display with auto-refresh off
    gestures            \* the number of inputs of the user so far

\* Phase 1 for one subgraph and the placing of its members in Phase 3
VARIABLES
    boxPc,           \* "idle" | "skipped" | "graphed" | "laid" | "bounded" | "placed"
    subgraphNodes,   \* nodes.filter(n => n.subgraph === subgraph.id)
    dagreGraph,      \* g: for every node id its size and, after the layout, its centre
    subgraphLayout,  \* subgraphLayouts.get(subgraph.id)
    memberPositions  \* the position of the React Flow node of every member

boxVars == << boxPc, subgraphNodes, dagreGraph, subgraphLayout, memberPositions >>

\* The plugin in live-preview mode: the active note, the mermaid blocks of the
\* page and the buttons the plugin gave them
VARIABLES
    noteBlocks,   \* the codes of the mermaid blocks of the active file, in file order
    pageBlocks,   \* the blocks of the file that stand in the page (by their place in the file)
    buttons,      \* for every block with a button the blockIndex its click handler holds
    clicked       \* the last click: its block, what extractMermaidFromFile answered,
                  \* and the code the view held before (not kept by the program)

clickVars == << noteBlocks, pageBlocks, buttons, clicked >>

\* core/diagramStorage.ts over the browser's localStorage
VARIABLES
    localStorage, \* the item stored under STORAGE_KEY ("" when there is none)
    now,          \* Date.now()
    returned,     \* what the last call returned
    called,       \* the last call: its name and arguments, the item before it
    calls         \* the number of calls so far

storeVars == << localStorage, now, returned, called, calls >>
sideVars == << boxVars, clickVars, storeVars >>
viewVars == << viewCode, sourceFilePath, autoRefreshEnabled, fileWatcherRef, vaultHandlers,
               fileText, reading, shownCode, diagramHashRef, flowData, originalNodesRef,
               saveTimeout, positions, sinceReset, watched, changedWhileOff, gestures >>
vars == << doc, mermaidCode, pc, parsed, metaGraph, data, settled, caught,
           blocks, markdown, diagrams, viewVars, sideVars >>
convertVars == << doc, mermaidCode, parsed, metaGraph, data, settled, caught >>
extractVars == << blocks, markdown, diagrams >>

NoParse == [nodes |-> << >>, edges |-> << >>, subgraphs |-> << >>]
NoMeta == [containers |-> << >>, standalone |-> << >>, edges |-> << >>]

NoTimeout == [armed |-> FALSE, nodes |-> NoNodes]
NoReads == [watcher |-> 0, reload |-> 0]

\* the view as its constructor leaves it, the component before its first render,
\* the plugin without saved positions
ViewInit ==
    /\ viewCode = ""
    /\ sourceFilePath = ""
    /\ autoRefreshEnabled = TRUE
    /\ fileWatcherRef = 0
    /\ vaultHandlers = {}
    /\ fileText = CodeOpened
    /\ reading = NoReads
    /\ shownCode = ""
    /\ diagramHashRef = ""
    /\ flowData = NoNodes
    /\ originalNodesRef = NoNodes
    /\ saveTimeout = NoTimeout
    /\ positions = [h \in {} |-> NoPositions]
    /\ sinceReset = "none"
    /\ watched = FALSE
    /\ changedWhileOff = FALSE
    /\ gestures = 0

NoGraph == [id \in {} |-> [x |-> 0, y |-> 0, width |-> 0, height |-> 0]]
NoLayout == [nodes |-> NoGraph, width |-> 0, height |-> 0]
BoxInit ==
    /\ boxPc = "idle"
    /\ subgraphNodes = << >>
    /\ dagreGraph = NoGraph
    /\ subgraphLayout = NoLayout
    /\ memberPositions = [id \in {} |-> [x |-> 0, y |-> 0]]

NoClick == [block |-> 0, source |-> "", before |-> ""]
ClickInit ==
    /\ noteBlocks = << >>
    /\ pageBlocks = {}
    /\ buttons = [b \in {} |-> 0]
    /\ clicked = NoClick

NoCall == [op |-> "", id |-> "", input |-> "", importable |-> FALSE, before |-> "",
           generated |-> ""]
StoreInit ==
    /\ localStorage = ""
    /\ now = 0
    /\ returned = Undefined
    /\ called = NoCall
    /\ calls = 0

Init ==
    /\ doc = Doc("", << >>)
    /\ mermaidCode = ""
    /\ pc = "idle"
    /\ parsed = NoParse
    /\ metaGraph = NoMeta
    /\ data = EmptyData
    /\ settled = "none"
    /\ caught = FALSE
    /\ blocks = << >>
    /\ markdown = ""
    /\ diagrams = << >>
    /\ ViewInit
    /\ BoxInit
    /\ ClickInit
    /\ StoreInit

\* convertMermaidToReactFlow(mermaidCode), up to the return of parseMermaidCode
Parse(d) ==
    /\ pc = "idle"
    /\ doc' = d
    /\ mermaidCode' = Render(d)
    /\ parsed' = parseMermaidCode(mermaidCode')
    /\ pc' = "parsed"
    /\ UNCHANGED << metaGraph, data, settled, caught, extractVars, viewVars, sideVars >>

\* "No nodes found in Mermaid diagram": the empty graph
ReturnEmpty ==
    /\ pc = "parsed"
    /\ Len(parsed.nodes) = 0
    /\ data' = EmptyData
    /\ settled' = "resolved"
    /\ pc' = "settled"
    /\ UNCHANGED << doc, mermaidCode, parsed, metaGraph, caught, extractVars, viewVars, sideVars >>

\* the special layout of a sequence diagram
LayoutSequence ==
    /\ pc = "parsed"
    /\ Len(parsed.nodes) # 0
    /\ IsSequenceDiagram(mermaidCode)
    /\ data' = layoutSequenceDiagram(parsed.nodes, parsed.edges)
    /\ settled' = "resolved"
    /\ pc' = "settled"
    /\ UNCHANGED << doc, mermaidCode, parsed, metaGraph, caught, extractVars, viewVars, sideVars >>

\* the three-phase layout of a flowchart
LayoutGraph ==
    /\ pc = "parsed"
    /\ Len(parsed.nodes) # 0
    /\ ~IsSequenceDiagram(mermaidCode)
    /\ metaGraph' = layoutMetaGraph(parsed.nodes, parsed.edges,
                        layoutSubgraphs(parsed.nodes, parsed.edges, parsed.subgraphs))
    /\ data' = layoutGraph(parsed.nodes, parsed.edges, parsed.subgraphs)
    /\ settled' = "resolved"
    /\ pc' = "settled"
    /\ UNCHANGED << doc, mermaidCode, parsed, caught, extractVars, viewVars, sideVars >>

\* a catch block that throws the error on
Rethrow == [data |-> EmptyData, settled |-> "rejected"]
\* the catch block: log the error and return the empty graph
Catch == [data |-> EmptyData, settled |-> "resolved"]

\* an exception thrown inside the layout (by the layout library) reaches the
\* catch block
LayoutThrows ==
    /\ pc = "parsed"
    /\ Len(parsed.nodes) # 0
    /\ caught' = TRUE
    /\ data' = Catch.data
    /\ settled' = Catch.settled
    /\ pc' = "settled"
    /\ UNCHANGED << doc, mermaidCode, parsed, metaGraph, extractVars, viewVars, sideVars >>

\* extractMermaidDiagrams(markdown)
Extract(bs) ==
    /\ pc = "idle"
    /\ blocks' = bs
    /\ markdown' = RenderBlocks(bs)
    /\ diagrams' = extractMermaidDiagrams(markdown')
    /\ pc' = "extracted"
    /\ UNCHANGED << convertVars, viewVars, sideVars >>

Next ==
    \/ \E d \in Docs : Parse(d)
    \/ ReturnEmpty
    \/ LayoutSequence
    \/ LayoutGraph
    \/ LayoutThrows
    \/ \E bs \in Markdowns : Extract(bs)

Spec == Init /\ [][Next]_vars

(***************************************************************************)
(* The view: the handlers of MermaidReactFlowView and of the wrapper       *)
(* component, one action each.  Between two actions the JavaScript event   *)
(* loop is idle; an await of the file and the debounce timer end in        *)
(* actions of their own.                                                   *)
(***************************************************************************)
\* MermaidReactFlowPlugin.savePositions and getPositions, on data.positions
savePositions(saved, diagramHash, entry) ==
    [h \in DOMAIN saved \cup {diagramHash} |-> IF h = diagramHash THEN entry ELSE saved[h]]
getPositions(saved, diagramHash) ==
    IF diagramHash \in DOMAIN saved THEN saved[diagramHash] ELSE NoPositions

\* vault.on hands out a reference the vault has not in use
FreshRef(handlers) ==
    CHOOSE r \in 1..(Cardinality(handlers) + 1) :
        r \notin handlers /\ \A q \in 1..(r - 1) : q \in handlers
\* setupFileWatcher: fileWatcherRef and the vault's handlers afterwards
setupFileWatcher(path, enabled, ref, handlers) ==
    LET cleaned == handlers \ {ref}
    IN  IF path = "" \/ ~enabled THEN [ref |-> 0, handlers |-> cleaned]
        ELSE [ref |-> FreshRef(cleaned), handlers |-> cleaned \cup {FreshRef(cleaned)}]

\* the toolbar and the diagram are on screen
Rendered == viewCode # "" /\ Len(flowData.ids) # 0
\* an input of the user, and a step the program takes by itself
Gesture == gestures < MaxGestures /\ gestures' = gestures + 1
Internal == UNCHANGED gestures
\* the first change after a Reset ends the time the Reset accounts for
Touched == IF sinceReset = "clean" THEN "touched" ELSE sinceReset

\* MermaidReactFlowView.setMermaidCode(code, sourcePath)
setMermaidCode(code, path) ==
    LET watcher == IF path # ""
                   THEN setupFileWatcher(path, autoRefreshEnabled, fileWatcherRef,
                                         vaultHandlers)
                   ELSE [ref |-> fileWatcherRef, handlers |-> vaultHandlers]
    IN  /\ viewCode' = code
        /\ sourceFilePath' = (IF path # "" THEN path ELSE sourceFilePath)
        /\ fileWatcherRef' = watcher.ref
        /\ vaultHandlers' = watcher.handlers

\* the click on "View in React Flow": view.setMermaidCode(source, sourcePath)
ShowDiagram(path) ==
    /\ setMermaidCode(fileText, path)
    /\ watched' = (fileWatcherRef' # 0)
    /\ UNCHANGED << autoRefreshEnabled, fileText, reading, shownCode, diagramHashRef,
                    flowData, originalNodesRef, saveTimeout, positions, sinceReset,
                    changedWhileOff >>
    /\ Gesture
    /\ UNCHANGED << pc, convertVars, extractVars, sideVars >>

\* the effect on [mermaidCode, plugin] with the then-callback of the conversion,
\* which follows it before any other task runs
DiagramEffect(thrown) ==
    /\ viewCode # ""
    /\ viewCode # shownCode
    /\ shownCode' = viewCode
    /\ diagramHashRef' = hashMermaidCode(viewCode)
    /\ originalNodesRef' = NodesOfData(viewCode,
                               IF thrown THEN Catch.data ELSE ConvertedData(viewCode))
    /\ flowData' = applySavedPositions(originalNodesRef',
                                       getPositions(positions, diagramHashRef'))
    /\ sinceReset' = Touched
    /\ UNCHANGED << viewCode, sourceFilePath, autoRefreshEnabled, fileWatcherRef,
                    vaultHandlers, fileText, reading, saveTimeout, positions, watched,
                    changedWhileOff >>
    /\ Internal
    /\ UNCHANGED << pc, convertVars, extractVars, sideVars >>

\* a drag of a node: handleNodesChange(nodes), which arms the debounced save
MoveNode ==
    /\ Rendered
    /\ \E k \in 1..Len(flowData.ids) : flowData' = [flowData EXCEPT !.pos[k] = "moved"]
    /\ saveTimeout' = [armed |-> TRUE, nodes |-> flowData']
    /\ sinceReset' = Touched
    /\ UNCHANGED << viewCode, sourceFilePath, autoRefreshEnabled, fileWatcherRef,
                    vaultHandlers, fileText, reading, shownCode, diagramHashRef,
                    originalNodesRef, positions, watched, changedWhileOff >>
    /\ Gesture
    /\ UNCHANGED << pc, convertVars, extractVars, sideVars >>

\* the callback of setTimeout(..., 500)
SaveTimeoutFires ==
    /\ saveTimeout.armed
    /\ positions' = savePositions(positions, diagramHashRef,
                                  extractPositions(saveTimeout.nodes))
    /\ saveTimeout' = NoTimeout
    /\ UNCHANGED << viewCode, sourceFilePath, autoRefreshEnabled, fileWatcherRef,
                    vaultHandlers, fileText, reading, shownCode, diagramHashRef, flowData,
                    originalNodesRef, sinceReset, watched, changedWhileOff >>
    /\ Internal
    /\ UNCHANGED << pc, convertVars, extractVars, sideVars >>

\* handleManualSave
ManualSave ==
    /\ Rendered
    /\ positions' = savePositions(positions, diagramHashRef, extractPositions(flowData))
    /\ sinceReset' = Touched
    /\ UNCHANGED << viewCode, sourceFilePath, autoRefreshEnabled, fileWatcherRef,
                    vaultHandlers, fileText, reading, shownCode, diagramHashRef, flowData,
                    originalNodesRef, saveTimeout, watched, changedWhileOff >>
    /\ Gesture
    /\ UNCHANGED << pc, convertVars, extractVars, sideVars >>

\* handleReset
Reset ==
    /\ Rendered
    /\ flowData' = originalNodesRef
    /\ positions' = savePositions(positions, diagramHashRef, NoPositions)
    /\ sinceReset' = "clean"
    /\ UNCHANGED << viewCode, sourceFilePath, autoRefreshEnabled, fileWatcherRef,
                    vaultHandlers, fileText, reading, shownCode, diagramHashRef,
                    originalNodesRef, saveTimeout, watched, changedWhileOff >>
    /\ Gesture
    /\ UNCHANGED << pc, convertVars, extractVars, sideVars >>

\* the handlers of the vault's 'modify' event that go on to refreshFromFile
Refreshing == { r \in vaultHandlers : SourcePath = sourceFilePath /\ autoRefreshEnabled }

\* the user edits the block in the note; the vault calls its 'modify' handlers,
\* each of which runs up to its await of the file
ModifyFile(text) ==
    /\ text # fileText
    /\ fileText' = text
    /\ reading' = [reading EXCEPT !.watcher = @ + Cardinality(Refreshing)]
    /\ watched' = (watched /\ Refreshing # {})
    /\ UNCHANGED << viewCode, sourceFilePath, autoRefreshEnabled, fileWatcherRef,
                    vaultHandlers, shownCode, diagramHashRef, flowData, originalNodesRef,
                    saveTimeout, positions, sinceReset, changedWhileOff >>
    /\ Gesture
    /\ UNCHANGED << pc, convertVars, extractVars, sideVars >>

\* handleReload: refreshFromFile up to its await of the file
Reload ==
    /\ Rendered
    /\ sourceFilePath # ""
    /\ reading' = [reading EXCEPT !.reload = @ + 1]
    /\ UNCHANGED << viewCode, sourceFilePath, autoRefreshEnabled, fileWatcherRef,
                    vaultHandlers, fileText, shownCode, diagramHashRef, flowData,
                    originalNodesRef, saveTimeout, positions, sinceReset, watched,
                    changedWhileOff >>
    /\ Gesture
    /\ UNCHANGED << pc, convertVars, extractVars, sideVars >>

\* refreshFromFile from the return of vault.read on
ReadDone(origin) ==
    /\ reading[origin] > 0
    /\ reading' = [reading EXCEPT ![origin] = @ - 1]
    /\ viewCode' = refreshFromFile(viewCode, FileContent(fileText))
    /\ changedWhileOff' = (changedWhileOff
                            \/ (origin = "watcher" /\ ~autoRefreshEnabled
                                /\ viewCode' # viewCode))
    /\ UNCHANGED << sourceFilePath, autoRefreshEnabled, fileWatcherRef, vaultHandlers,
                    fileText, shownCode, diagramHashRef, flowData, originalNodesRef,
                    saveTimeout, positions, sinceReset, watched >>
    /\ Internal
    /\ UNCHANGED << pc, convertVars, extractVars, sideVars >>

\* toggleAutoRefresh
ToggleAutoRefresh ==
    LET watcher == setupFileWatcher(sourceFilePath, ~autoRefreshEnabled, fileWatcherRef,
                                    vaultHandlers)
    IN  /\ Rendered
        /\ autoRefreshEnabled' = ~autoRefreshEnabled
        /\ fileWatcherRef' = watcher.ref
        /\ vaultHandlers' = watcher.handlers
        /\ UNCHANGED << viewCode, sourceFilePath, fileText, reading, shownCode,
                        diagramHashRef, flowData, originalNodesRef, saveTimeout, positions,
                        sinceReset, watched, changedWhileOff >>
        /\ Gesture
        /\ UNCHANGED << pc, convertVars, extractVars, sideVars >>

ViewNext ==
    \/ \E path \in {"", SourcePath} : ShowDiagram(path)
    \/ \E thrown \in BOOLEAN : DiagramEffect(thrown)
    \/ MoveNode
    \/ SaveTimeoutFires
    \/ ManualSave
    \/ Reset
    \/ \E text \in BlockTexts : ModifyFile(text)
    \/ Reload
    \/ \E origin \in {"watcher", "reload"} : ReadDone(origin)
    \/ ToggleAutoRefresh

ViewSpec == Init /\ [][ViewNext]_vars

(***************************************************************************)
(* Phase 1 for one subgraph, step by step, and the placing of its members  *)
(* in Phase 3.  The parser gives every id one node, so the members have    *)
(* distinct ids.  What dagre.layout answers is not computed: every         *)
(* assignment of centres to the members is taken.                          *)
(***************************************************************************)
\* the filter of the subgraph's nodes, the early return for none, g.setNode
FilterNodes(kinds) ==
    /\ boxPc = "idle"
    /\ subgraphNodes' = MembersOf(kinds)
    /\ boxPc' = (IF Len(kinds) = 0 THEN "skipped" ELSE "graphed")
    /\ dagreGraph' = SetNodes(subgraphNodes')
    /\ UNCHANGED << subgraphLayout, memberPositions >>
    /\ UNCHANGED << pc, convertVars, extractVars, viewVars, clickVars, storeVars >>

Centres(ids) == [ids -> { [x |-> x, y |-> y] : x \in CentreXs, y \in CentreYs }]
\* dagre.layout(g)
DagreLayout ==
    /\ boxPc = "graphed"
    /\ \E centres \in Centres(DOMAIN dagreGraph) :
          dagreGraph' = [id \in DOMAIN dagreGraph |->
                           [dagreGraph[id] EXCEPT !.x = centres[id].x, !.y = centres[id].y]]
    /\ boxPc' = "laid"
    /\ UNCHANGED << subgraphNodes, subgraphLayout, memberPositions >>
    /\ UNCHANGED << pc, convertVars, extractVars, viewVars, clickVars, storeVars >>

\* the bounding box, the offsets and subgraphLayouts.set
BoundSubgraph ==
    /\ boxPc = "laid"
    /\ subgraphLayout' = SubgraphLayoutOf(subgraphNodes, dagreGraph)
    /\ boxPc' = "bounded"
    /\ UNCHANGED << subgraphNodes, dagreGraph, memberPositions >>
    /\ UNCHANGED << pc, convertVars, extractVars, viewVars, clickVars, storeVars >>

\* createReactFlowElements for the members of the subgraph
PlaceMembers ==
    /\ boxPc = "bounded"
    /\ memberPositions' = [id \in DOMAIN subgraphLayout.nodes |->
                             RelativePosition(subgraphLayout.nodes[id])]
    /\ boxPc' = "placed"
    /\ UNCHANGED << subgraphNodes, dagreGraph, subgraphLayout >>
    /\ UNCHANGED << pc, convertVars, extractVars, viewVars, clickVars, storeVars >>

BoxNext ==
    \/ \E kinds \in SeqsUpTo(MemberKinds, MaxMembers) : FilterNodes(kinds)
    \/ DagreLayout
    \/ BoundSubgraph
    \/ PlaceMembers

BoxSpec == Init /\ [][BoxNext]_vars

(***************************************************************************)
(* The plugin in live-preview mode.  The editor puts the blocks of the     *)
(* active note into the page as they come into view, some at a time; the   *)
(* DOM observer gives every new mermaid block its button.  Every block of  *)
(* the page is taken to carry the classes the plugin asks for.             *)
(***************************************************************************)
\* the user opens a note
OpenNote(bs) ==
    /\ noteBlocks = << >>
    /\ noteBlocks' = bs
    /\ UNCHANGED << pageBlocks, buttons, clicked >>
    /\ UNCHANGED << pc, convertVars, extractVars, viewVars, boxVars, storeVars >>

\* the observer's callback for blocks added to the page: processElement and
\* addButtonToEditModeBlock for each, all of them standing in the page by then
BlocksAdded ==
    /\ \E added \in SUBSET (1..Len(noteBlocks) \ pageBlocks) :
          /\ added # {}
          /\ pageBlocks' = pageBlocks \cup added
          /\ buttons' = [b \in pageBlocks' |->
                            IF b \in pageBlocks THEN buttons[b]
                            ELSE IndexInPage(pageBlocks', b)]
    /\ UNCHANGED << noteBlocks, clicked >>
    /\ UNCHANGED << pc, convertVars, extractVars, viewVars, boxVars, storeVars >>

\* the click handler with the source that extractMermaidFromFile answered
ClickWith(b, source) ==
    /\ clicked' = [block |-> b, source |-> source, before |-> viewCode]
    /\ IF source = ""
       THEN UNCHANGED << viewCode, sourceFilePath, fileWatcherRef, vaultHandlers, watched >>
       ELSE setMermaidCode(source, SourcePath) /\ watched' = (fileWatcherRef' # 0)
    /\ UNCHANGED << autoRefreshEnabled, fileText, reading, shownCode, diagramHashRef,
                    flowData, originalNodesRef, saveTimeout, positions, sinceReset,
                    changedWhileOff, gestures >>
\* the click on the button of a block of the page
ClickButton ==
    /\ \E b \in pageBlocks :
          ClickWith(b, extractMermaidFromFile(NoteContent(noteBlocks), buttons[b]))
    /\ UNCHANGED << noteBlocks, pageBlocks, buttons >>
    /\ UNCHANGED << pc, convertVars, extractVars, boxVars, storeVars >>

ClickNext ==
    \/ \E bs \in Notes : OpenNote(bs)
    \/ BlocksAdded
    \/ ClickButton

ClickSpec == Init /\ [][ClickNext]_vars

(***************************************************************************)
(* The diagram store: one action for each exported function that writes,   *)
(* each call in one piece (the functions are synchronous), and the clock.  *)
(***************************************************************************)
\* the end of a call: the item it left, its result, and the record of the call
Return(op, id, input, generated, out) ==
    /\ localStorage' = out.item
    /\ returned' = out.result
    /\ called' = [op |-> op, id |-> id, input |-> input.text, importable |-> ~input.lacks,
                  before |-> localStorage, generated |-> generated]
    /\ calls' = calls + 1
    /\ UNCHANGED now
    /\ UNCHANGED << pc, convertVars, extractVars, viewVars, boxVars, clickVars >>

NoInput == ImportText("", TRUE)

Tick ==
    /\ now < MaxNow
    /\ now' = now + 1
    /\ UNCHANGED << localStorage, returned, called, calls >>
    /\ UNCHANGED << pc, convertVars, extractVars, viewVars, boxVars, clickVars >>

SaveDiagram(random) ==
    /\ calls < MaxCalls
    /\ Return("save", "", NoInput, generateId(now, random),
              saveDiagram(localStorage, FlowDiagram, now, random))

UpdateDiagram(id, updates) ==
    /\ calls < MaxCalls
    /\ Return("update", id, NoInput, "", updateDiagram(localStorage, id, updates, now))

DeleteDiagram(id) ==
    /\ calls < MaxCalls
    /\ Return("delete", id, NoInput, "", deleteDiagram(localStorage, id))

ImportDiagram(input, random) ==
    /\ calls < MaxCalls
    /\ Return("import", "", input, generateId(now, random),
              importDiagram(localStorage, input.text, now, random))

StoreNext ==
    \/ Tick
    \/ \E random \in Randoms : SaveDiagram(random)
    \/ \E id \in CallIds, updates \in Updates : UpdateDiagram(id, updates)
    \/ \E id \in CallIds : DeleteDiagram(id)
    \/ \E input \in ImportInputs, random \in Randoms : ImportDiagram(input, random)

StoreSpec == Init /\ [][StoreNext]_vars

(***************************************************************************)
(* What a document says, read off its structure (never off its text)       *)
(***************************************************************************)
IsFlowDoc(d) == d.header = "graph TD"
IsSeqDoc(d) == d.header = "sequenceDiagram"
Parsed == pc \in {"parsed", "settled"}

\* the node references of a line, left to right
RefsOf(l) ==
    CASE l.kind = "edge" -> << l.a, l.b >>
      [] l.kind = "node" -> << l.a >>
      [] OTHER -> << >>
AllRefs(d) == LET refs(k) == RefsOf(d.lines[k]) IN SeqCat(refs, 1, Len(d.lines))
RefIds(d) == { AllRefs(d)[k].id : k \in 1..Len(AllRefs(d)) }
\* the first reference to id in the document
FirstRef(d, id) ==
    AllRefs(d)[CHOOSE k \in 1..Len(AllRefs(d)) :
                  AllRefs(d)[k].id = id /\ \A h \in 1..(k - 1) : AllRefs(d)[h].id # id]

\* the shape a definition text asks for, by its bracket pair
ShapeOfBrackets(def) ==
    CASE StartsWith(def, "{")  -> "diamond"
      [] StartsWith(def, "((") -> "circle"
      [] StartsWith(def, "([") -> "stadium"
      [] StartsWith(def, "[")  -> "rect"
      [] StartsWith(def, "(")  -> "round"
      [] OTHER -> "rect"
\* the label a reference asks for: the text inside its bracket pair, or its id
LabelOfRef(r) ==
    IF r.def = "" THEN r.id
    ELSE IF StartsWith(r.def, "((") \/ StartsWith(r.def, "([")
         THEN SubSeq(r.def, 3, Len(r.def) - 2)
         ELSE SubSeq(r.def, 2, Len(r.def) - 1)

\* a text without its HTML tags: a line-break tag stands for a newline, every
\* other tag for nothing; read character by character
FirstAt(text, c) ==
    IF \E i \in 1..Len(text) : CharAt(text, i) = c
    THEN CHOOSE i \in 1..Len(text) :
            CharAt(text, i) = c /\ \A j \in 1..(i - 1) : CharAt(text, j) # c
    ELSE 0
IsBreakTag(tag) == ToLowerCase(tag) \in {"<br>", "<br/>", "<br />"}
RECURSIVE StripTags(_)
StripTags(text) ==
    LET open == FirstAt(text, "<")
        rest == SubSeq(text, open, Len(text))
        close == FirstAt(rest, ">")
    IN  IF open = 0 \/ close = 0 THEN text
        ELSE SubSeq(text, 1, open - 1)
               \o (IF IsBreakTag(SubSeq(rest, 1, close)) THEN "\n" ELSE "")
               \o StripTags(SubSeq(rest, close + 1, Len(rest)))

NodesWithId(nodes, id) == { k \in 1..Len(nodes) : nodes[k].id = id }
HasNode(nodes, id) == NodesWithId(nodes, id) # {}

\* the edges the edge lines of a document ask for, in the order of the lines
EdgeLines(d) == SelectSeq(d.lines, LAMBDA l : l.kind = "edge")
EdgesOfDoc(d) ==
    [k \in 1..Len(EdgeLines(d)) |->
        [source |-> EdgeLines(d)[k].a.id, target |-> EdgeLines(d)[k].b.id,
         label |-> EdgeLines(d)[k].label, type |-> EdgeLines(d)[k].arrow]]

\* a sequence without its repetitions: each element where it first stands
Distinct(sq) ==
    LET firsts == { k \in 1..Len(sq) : \A h \in 1..(k - 1) : sq[h] # sq[k] }
        nth(i) == CHOOSE k \in firsts : Cardinality({ h \in firsts : h < k }) = i - 1
    IN  [i \in 1..Cardinality(firsts) |-> sq[nth(i)]]

\* the declared participants of a document, and the ends of its messages
DeclaredIds(d) ==
    LET decl(k) == IF d.lines[k].kind = "participant" THEN << d.lines[k].a.id >> ELSE << >>
    IN  SeqCat(decl, 1, Len(d.lines))
MessageEnds(d) ==
    LET ends(k) == IF d.lines[k].kind = "message"
                   THEN << d.lines[k].a.id, d.lines[k].b.id >> ELSE << >>
    IN  SeqCat(ends, 1, Len(d.lines))
OrderOfDoc(d) == Distinct(DeclaredIds(d) \o MessageEnds(d))
IsDeclared(d, id) == \E k \in 1..Len(d.lines) :
                        d.lines[k].kind = "participant" /\ d.lines[k].a.id = id

\* the header nodes of a sequence parse
Headers(nodes) == SelectSeq(nodes, LAMBDA n : StartsWith(n.id, "header_"))
ParticipantOrder(nodes) ==
    [k \in 1..Len(Headers(nodes)) |-> Headers(nodes)[k].metadata.participantId]

\* the message lines of a document, in the order of the lines
MessagesOfDoc(d) == SelectSeq(d.lines, LAMBDA l : l.kind = "message")
\* the edges of a sequence parse that carry a label: the message edges
LabelledEdges(edges) == SelectSeq(edges, LAMBDA e : e.label # "")
EdgesBetween(edges, source, target) ==
    { k \in 1..Len(edges) : edges[k].source = source /\ edges[k].target = target }

\* the lines of a block in its document: heading, gap, fence, code, fence
HeadLines(b) == (IF b.heading = "" THEN << >> ELSE << b.heading >>) \o b.gap
CodeOfBlock(b) == Spell(b.keyword, b.spelling) \o "\nA --> B"
FencedText(b) == Fence \o "mermaid\n" \o CodeOfBlock(b) \o "\n" \o Fence
LinesOfBlock(b) ==
    HeadLines(b) \o << Fence \o "mermaid", Spell(b.keyword, b.spelling), "A --> B", Fence >>
Reverse(sq) == [k \in 1..Len(sq) |-> sq[Len(sq) + 1 - k]]
\* the lines above the opening fence of block k, the nearest first
LinesAbove(bs, k) ==
    LET before(j) == LinesOfBlock(bs[j])
    IN  Reverse(SeqCat(before, 1, k - 1) \o HeadLines(bs[k]))
\* the offset of the opening fence of block k in the rendered document
StartOfBlock(bs, k) ==
    LET lengthOf(sq) == Len(sq) + 1
        chars(lines) == LET one(i) == << lengthOf(lines[i]) >>
                            all == SeqCat(one, 1, Len(lines))
                        IN  IF all = << >> THEN 0
                            ELSE LET sum[i \in 0..Len(all)] ==
                                        IF i = 0 THEN 0 ELSE sum[i - 1] + all[i]
                                 IN  sum[Len(all)]
    IN  chars(Reverse(LinesAbove(bs, k)))

RECURSIVE DropHashes(_)
DropHashes(line) ==
    IF StartsWith(line, "#") THEN DropHashes(SubSeq(line, 2, Len(line))) ELSE line
\* the name the lines above a fence give, walking from the nearest line up
RECURSIVE NameAbove(_, _, _)
NameAbove(above, k, fallback) ==
    IF k > Len(above) THEN fallback
    ELSE IF StartsWith(above[k], "#") THEN Trim(DropHashes(above[k]))
    ELSE IF StartsWith(above[k], Fence) THEN fallback
    ELSE IF above[k] = "" /\ k < Len(above) /\ above[k + 1] = "" THEN fallback
    ELSE NameAbove(above, k + 1, fallback)

\* the subgraph line that is open where line k stands (0: none): the nearest
\* subgraph line above it with no end line in between
OpenAt(d, k) ==
    LET opened == { j \in 1..(k - 1) :
                      /\ d.lines[j].kind = "subgraph"
                      /\ \A h \in (j + 1)..(k - 1) : d.lines[h].kind # "end" }
    IN  IF opened = {} THEN 0 ELSE CHOOSE j \in opened : \A h \in opened : h <= j
\* no subgraph line stands inside an open subgraph
NotNested(d) == \A k \in 1..Len(d.lines) : d.lines[k].kind = "subgraph" => OpenAt(d, k) = 0
\* the first line that names the node id
FirstLineOf(d, id) ==
    CHOOSE k \in 1..Len(d.lines) :
        /\ \E r \in 1..Len(RefsOf(d.lines[k])) : RefsOf(d.lines[k])[r].id = id
        /\ \A h \in 1..(k - 1) : \A r \in 1..Len(RefsOf(d.lines[h])) :
                                      RefsOf(d.lines[h])[r].id # id
\* the position among the subgraph lines of the subgraph line at line j
SubgraphIndex(d, j) == Cardinality({ h \in 1..j : d.lines[h].kind = "subgraph" })
\* the number of times id stands in a member list
Occurrences(members, id) == Cardinality({ k \in 1..Len(members) : members[k] = id })

\* the type the keyword of a first line stands for
TypeOfKeyword(keyword) ==
    CASE keyword \in {"graph", "flowchart"} -> "flowchart"
      [] keyword = "sequenceDiagram" -> "sequence"
      [] keyword = "classDiagram" -> "class"
      [] keyword = "stateDiagram" -> "state"
      [] keyword = "erDiagram" -> "er"
      [] keyword = "gantt" -> "gantt"
      [] keyword = "pie" -> "pie"
      [] OTHER -> "unknown"

(***************************************************************************)
(* Properties                                                              *)
(***************************************************************************)
OneLine(header, line) == Doc(header, << line >>)
NodeAt(nodes, id) == nodes[CHOOSE k \in NodesWithId(nodes, id) : TRUE]

\* C1: in the parse result of every source text, of the flowchart dialect and
\* of the sequence dialect alike, the source id and the target id of every
\* edge are ids of nodes of the same result; an endpoint that was never
\* defined has been created.
C1_EdgeEndpointsAreNodes ==
    Parsed => \A k \in 1..Len(parsed.edges) :
                 /\ HasNode(parsed.nodes, parsed.edges[k].source)
                 /\ HasNode(parsed.nodes, parsed.edges[k].target)
\* the line A --> B alone: both ends were created for its one edge
C1_Witness ==
    /\ pc = "parsed"
    /\ doc = OneLine("graph TD", EdgeLine(Ref("A", ""), "-->", "", Ref("B", "")))
    /\ Len(parsed.edges) = 1
    /\ parsed.edges[1].target = "B"
    /\ HasNode(parsed.nodes, "A") /\ HasNode(parsed.nodes, "B")

\* C2: the shape of every flowchart node is the one its first definition in
\* the source asks for by its bracket pair: {..} diamond, ((..)) circle,
\* ([..]) stadium, [..] rect, (..) round, no brackets rect.
C2_ShapeByBracketPair ==
    (Parsed /\ IsFlowDoc(doc)) =>
        \A k \in 1..Len(parsed.nodes) :
            parsed.nodes[k].id \in RefIds(doc) =>
                parsed.nodes[k].shape = ShapeOfBrackets(FirstRef(doc, parsed.nodes[k].id).def)
\* the line B((Start)) alone is parsed to a round node labelled "(Start"
C2_Witness ==
    /\ pc = "parsed"
    /\ doc = OneLine("graph TD", NodeLine(Ref("B", "((Start))")))
    /\ Len(parsed.nodes) = 1
    /\ parsed.nodes[1].shape = "round"
    /\ parsed.nodes[1].label = "(Start"

\* C3: the source graph TD / subgraph S1[Group One] / A --> B / end / C --> A
\* yields a subgraph S1 with the members A, B in this order, A and B are in
\* S1, C is in no subgraph, and the meta-graph has an edge from C to S1.
C3_SubgraphExample ==
    (pc = "settled" /\ ~caught /\ doc = SubgraphExample) =>
        /\ Len(parsed.subgraphs) = 1
        /\ parsed.subgraphs[1].id = "S1"
        /\ parsed.subgraphs[1].nodes = << "A", "B" >>
        /\ \A id \in {"A", "B", "C"} : HasNode(parsed.nodes, id)
        /\ NodeAt(parsed.nodes, "A").subgraph = "S1"
        /\ NodeAt(parsed.nodes, "B").subgraph = "S1"
        /\ NodeAt(parsed.nodes, "C").subgraph = ""
        /\ \E k \in 1..Len(metaGraph.edges) : metaGraph.edges[k] = << "C", "S1" >>
\* what the example yields: the id of the subgraph is the text up to the
\* first blank, "S1[Group"
C3_Witness ==
    /\ pc = "settled" /\ ~caught /\ doc = SubgraphExample
    /\ parsed.subgraphs[1].id = "S1[Group"
    /\ parsed.subgraphs[1].nodes = << "A", "B" >>
    /\ NodeAt(parsed.nodes, "A").subgraph = "S1[Group"
    /\ NodeAt(parsed.nodes, "C").subgraph = ""
    /\ metaGraph.edges = << << "C", "S1[Group" >> >>

\* C4: every id the source refers to, however often, has exactly one node,
\* and the shape and the label of that node are those of the first definition
\* of the id in the source.
C4_OneNodePerId ==
    (Parsed /\ IsFlowDoc(doc)) =>
        \A id \in RefIds(doc) :
            /\ Cardinality(NodesWithId(parsed.nodes, id)) = 1
            /\ NodeAt(parsed.nodes, id).shape = ShapeOfBrackets(FirstRef(doc, id).def)
            /\ NodeAt(parsed.nodes, id).label = LabelOfRef(FirstRef(doc, id))
\* in AB{Go} --> B[Do] the node B takes the definition of AB
C4_Witness ==
    /\ pc = "parsed"
    /\ doc = OneLine("graph TD", EdgeLine(Ref("AB", "{Go}"), "-->", "", Ref("B", "[Do]")))
    /\ NodeAt(parsed.nodes, "B").shape = "diamond"
    /\ NodeAt(parsed.nodes, "B").label = "Go"

\* the ids that stand only at the ends of edge lines, never with brackets
BareEndpoints(d) ==
    { id \in RefIds(d) :
        /\ \A k \in 1..Len(AllRefs(d)) : AllRefs(d)[k].id = id => AllRefs(d)[k].def = ""
        /\ \A k \in 1..Len(d.lines) : d.lines[k].kind = "node" => d.lines[k].a.id # id }

\* C5: an id that stands only at the ends of edge lines and has no bracketed
\* definition is a node whose label is the id and whose shape is rect,
\* whatever the other end of the line is.
C5_BareEndpointAutoCreated ==
    (Parsed /\ IsFlowDoc(doc)) =>
        \A id \in BareEndpoints(doc) :
            /\ HasNode(parsed.nodes, id)
            /\ NodeAt(parsed.nodes, id).label = id
            /\ NodeAt(parsed.nodes, id).shape = "rect"
\* in AB{Go} --> B the bare B is created as a diamond labelled Go
C5_Witness ==
    /\ pc = "parsed"
    /\ doc = OneLine("graph TD", EdgeLine(Ref("AB", "{Go}"), "-->", "", Ref("B", "")))
    /\ "B" \in BareEndpoints(doc)
    /\ NodeAt(parsed.nodes, "B").shape = "diamond"
    /\ NodeAt(parsed.nodes, "B").label = "Go"

PairwiseDistinctIds(els) ==
    \A i, j \in 1..Len(els) : i # j => els[i].id # els[j].id

\* C6: every edge line of a flowchart gives an edge of its own: the parsed
\* edges are the edges of the edge lines, in the order of the lines, each with
\* its own label, and the visual edges made of them have distinct ids.
C6_EdgesNeverMerged ==
    /\ (Parsed /\ IsFlowDoc(doc)) => parsed.edges = EdgesOfDoc(doc)
    /\ (pc = "settled" /\ ~caught /\ IsFlowDoc(doc) /\ Len(EdgeLines(doc)) > 0) =>
            /\ Len(data.edges) = Len(EdgeLines(doc))
            /\ \A k \in 1..Len(data.edges) : data.edges[k].label = EdgeLines(doc)[k].label
            /\ PairwiseDistinctIds(data.edges)
\* the edge line B((Start)) ==> A gives no edge: it is read as a definition of B
C6_Witness ==
    /\ pc = "settled" /\ ~caught
    /\ doc = OneLine("graph TD", EdgeLine(Ref("B", "((Start))"), "==>", "", Ref("A", "")))
    /\ Len(parsed.edges) = 0
    /\ Len(data.edges) = 0
    /\ Len(parsed.nodes) = 1 /\ parsed.nodes[1].id = "B"

\* C7: the promise of convertMermaidToReactFlow never rejects; it resolves,
\* and to the empty graph when the parse has no nodes or an exception was
\* caught.
C7_ConvertIsTotal ==
    /\ settled # "rejected"
    /\ pc = "settled" =>
          /\ settled = "resolved"
          /\ (Len(parsed.nodes) = 0 \/ caught) => data = EmptyData
\* an exception in the layout of a diagram with nodes: resolved, empty
C7_Witness ==
    /\ pc = "settled" /\ caught
    /\ Len(parsed.nodes) > 0
    /\ settled = "resolved"
    /\ data = EmptyData

\* C8: the conversion of a diagram of an unsupported type (class, state, er,
\* gantt, pie) resolves to no nodes and no edges.
C8_UnsupportedYieldsNothing ==
    (pc = "settled" /\ doc.header \in UnsupportedHeaders) =>
        settled = "resolved" /\ data = EmptyData
\* a state diagram with the line Still --> Moving is laid out as a flowchart
C8_Witness ==
    /\ pc = "settled" /\ ~caught
    /\ doc = OneLine("stateDiagram", RawLine("Still --> Moving"))
    /\ Len(data.nodes) = 2
    /\ Len(data.edges) = 1

\* C9: the type of an extracted block is the one its first line's keyword
\* stands for, in any spelling of upper and lower case: graph and flowchart
\* flowchart, sequenceDiagram sequence, classDiagram class, stateDiagram
\* state, erDiagram er, gantt gantt, pie pie, anything else unknown.
C9_TypeByKeyword ==
    pc = "extracted" =>
        /\ Len(diagrams) = Len(blocks)
        /\ \A k \in 1..Len(diagrams) : diagrams[k].type = TypeOfKeyword(blocks[k].keyword)
\* a block whose first line is classDiagram is of type unknown
C9_Witness ==
    /\ pc = "extracted"
    /\ Len(blocks) = 1
    /\ blocks[1].keyword = "classDiagram" /\ blocks[1].spelling = "as written"
    /\ Len(diagrams) = 1
    /\ diagrams[1].type = "unknown"

\* C10: the participant order of a sequence parse holds every participant
\* once: the declared ones in the order of their first declarations, then
\* the undeclared ones in the order in which they first stand at an end of a
\* message, sender before receiver; an undeclared one is labelled with its id.
C10_ParticipantOrder ==
    (Parsed /\ IsSeqDoc(doc)) =>
        /\ ParticipantOrder(parsed.nodes) = OrderOfDoc(doc)
        /\ \A k \in 1..Len(Headers(parsed.nodes)) :
              ~IsDeclared(doc, Headers(parsed.nodes)[k].metadata.participantId) =>
                  Headers(parsed.nodes)[k].label
                      = Headers(parsed.nodes)[k].metadata.participantId
\* declarations after the messages: B and A come first, then C and D
C10_Witness ==
    /\ pc = "parsed"
    /\ doc = LateDeclarations
    /\ ParticipantOrder(parsed.nodes) = << "B", "A", "C", "D" >>
    /\ Headers(parsed.nodes)[1].label = "Bee"
    /\ Headers(parsed.nodes)[4].label = "D"

\* the participants order and M messages: one header and the points 0..M+1
\* for each participant, its points chained, its header tied to point 0
SequenceShape(nodes, edges, order, M) ==
    /\ Len(nodes) = Len(order) * (M + 3)
    /\ Len(edges) = Len(order) * (M + 2) + M
    /\ Len(Headers(nodes)) = Len(order)
    /\ \A p \in 1..Len(order) :
          /\ Cardinality(NodesWithId(nodes, "header_" \o order[p])) = 1
          /\ \A i \in 0..(M + 1) :
                /\ Cardinality(NodesWithId(nodes, LifelineId(order[p], i))) = 1
                /\ NodeAt(nodes, LifelineId(order[p], i)).metadata.lifelineIndex = i
          /\ ~HasNode(nodes, LifelineId(order[p], M + 2))
          /\ \A i \in 1..(M + 1) :
                Cardinality(EdgesBetween(edges, LifelineId(order[p], i - 1),
                                         LifelineId(order[p], i))) = 1
          /\ Cardinality(EdgesBetween(edges, "header_" \o order[p],
                                      LifelineId(order[p], 0))) = 1

\* C11: a sequence diagram with P participants and M parsed messages has one
\* header node per participant and the M + 2 lifeline points 0..M+1 per
\* participant, chained by M + 1 edges, the header tied to point 0: P*(M+3)
\* nodes and P*(M+2) + M edges in all.
C11_SequenceCounts ==
    (Parsed /\ IsSeqDoc(doc)) =>
        SequenceShape(parsed.nodes, parsed.edges, OrderOfDoc(doc), Len(MessagesOfDoc(doc)))
\* Alice, Bob and one message: 2 headers, 2 * 3 points, 2 * 3 + 1 edges
C11_Witness ==
    /\ pc = "parsed"
    /\ doc = SequenceExample
    /\ Len(parsed.nodes) = 8
    /\ Len(parsed.edges) = 7
    /\ HasNode(parsed.nodes, "lifeline_Bob_2")

\* the point index at which an edge joins the lifelines of the two ends of
\* a message, -1 when it joins no two points of one index
PointOfMessage(edge, message, M) ==
    LET at == { i \in 0..(M + 1) :
                  /\ edge.source = LifelineId(message.a.id, i)
                  /\ edge.target = LifelineId(message.b.id, i) }
    IN  IF at = {} THEN -1 ELSE CHOOSE i \in at : TRUE
\* the labelled edges are the messages in source order, each at one point
\* index of both its ends, the indices increasing
MessagesInOrder(edges, messages) ==
    /\ Len(edges) = Len(messages)
    /\ \A k \in 1..Len(messages) :
          /\ edges[k].label = messages[k].label
          /\ PointOfMessage(edges[k], messages[k], Len(messages)) >= 0
          /\ k > 1 => PointOfMessage(edges[k - 1], messages[k - 1], Len(messages))
                        < PointOfMessage(edges[k], messages[k], Len(messages))
\* message k (from 1) joins the points of index k + shift
MessagesAtPoints(edges, messages, shift) ==
    /\ Len(edges) = Len(messages)
    /\ \A k \in 1..Len(messages) :
          /\ edges[k].source = LifelineId(messages[k].a.id, k + shift)
          /\ edges[k].target = LifelineId(messages[k].b.id, k + shift)
          /\ edges[k].label = messages[k].label

\* C12: every parsed message is one labelled edge between the lifeline points
\* of its sender and its receiver at the same point index, later messages at
\* higher indices; the one message of the example Alice->>Bob: Hello, at time
\* slot 0, joins the first lifeline point of Alice and the first of Bob.
C12_MessageAtFirstPoint ==
    (Parsed /\ IsSeqDoc(doc)) =>
        /\ MessagesInOrder(LabelledEdges(parsed.edges), MessagesOfDoc(doc))
        /\ doc = SequenceExample =>
              /\ LabelledEdges(parsed.edges)[1].source = "lifeline_Alice_0"
              /\ LabelledEdges(parsed.edges)[1].target = "lifeline_Bob_0"
\* C12 as amended: the message of time slot t joins the points of index t + 1
\* of its sender and its receiver, point 0 being the top point above the
\* first message; the one message of the example joins lifeline_Alice_1 and
\* lifeline_Bob_1.
C12_MessageBelowTopPoint ==
    (Parsed /\ IsSeqDoc(doc)) =>
        /\ MessagesInOrder(LabelledEdges(parsed.edges), MessagesOfDoc(doc))
        /\ MessagesAtPoints(LabelledEdges(parsed.edges), MessagesOfDoc(doc), 0)
\* the example: one labelled edge, from Alice's point 1 to Bob's point 1
C12_Witness ==
    /\ pc = "parsed"
    /\ doc = SequenceExample
    /\ Len(LabelledEdges(parsed.edges)) = 1
    /\ LabelledEdges(parsed.edges)[1].source = "lifeline_Alice_1"
    /\ LabelledEdges(parsed.edges)[1].target = "lifeline_Bob_1"
    /\ LabelledEdges(parsed.edges)[1].label = "Hello"

\* C13: the name of an extracted block is the text, without its leading #
\* run, of the nearest heading line above the opening fence, walking back
\* line by line from the block's start line; when the fence of a code block or
\* a gap of blank lines comes before any heading, or there is no heading, the
\* name is "<type> diagram" with the type the block was classified as.
C13_NameFromHeadingAbove ==
    pc = "extracted" =>
        /\ Len(diagrams) = Len(blocks)
        /\ \A k \in 1..Len(diagrams) :
              diagrams[k].name
                = NameAbove(LinesAbove(blocks, k), 1, diagrams[k].type \o " diagram")
\* # Title, a nearer heading ## Near and a line of text above the fence: Near
C13_Witness ==
    /\ pc = "extracted"
    /\ blocks = << Block("# Title", << "## Near", "Some text" >>, "graph", "as written") >>
    /\ Len(diagrams) = 1
    /\ diagrams[1].name = "Near"
\* # Title, then two blank lines above the fence: the fallback name
C13_WitnessGap ==
    /\ pc = "extracted"
    /\ blocks = << Block("# Title", << "", "" >>, "graph", "as written") >>
    /\ Len(diagrams) = 1
    /\ diagrams[1].name = "flowchart diagram"

\* the diagrams are the blocks in document order, each at the span of its
\* fenced text, the spans not empty, increasing and apart
SpansOfBlocks(found, bs, text) ==
    /\ Len(found) = Len(bs)
    /\ \A k \in 1..Len(found) :
          /\ found[k].code = CodeOfBlock(bs[k])
          /\ found[k].position.start = StartOfBlock(bs, k)
          /\ found[k].position.start < found[k].position.end
          /\ SubSeq(text, found[k].position.start + 1, found[k].position.end)
               = FencedText(bs[k])
          /\ k > 1 => /\ found[k - 1].position.start < found[k].position.start
                      /\ found[k - 1].position.end <= found[k].position.start

\* C14: extractMermaidDiagrams returns one block for every fenced mermaid
\* block of the document, in document order, each with start < end, the spans
\* strictly increasing and without overlap; no blocks give the empty list; two
\* blocks of the same content give two entries with different spans.
C14_OneBlockPerFence ==
    pc = "extracted" => SpansOfBlocks(diagrams, blocks, markdown)
\* two blocks with the same code: two entries, told apart by their spans
C14_Witness ==
    /\ pc = "extracted"
    /\ Len(blocks) = 2
    /\ Len(diagrams) = 2
    /\ diagrams[1].code = diagrams[2].code
    /\ diagrams[1].position.end <= diagrams[2].position.start
\* a document without blocks: the empty list
C14_WitnessEmpty ==
    /\ pc = "extracted"
    /\ blocks = << >>
    /\ markdown = ""
    /\ diagrams = << >>

\* a visual node whose parent reference is its own id
SelfParented(n) == "parentNode" \in DOMAIN n /\ n.parentNode = n.id
\* the positions at which an id stands among the visual nodes
ElementsWithId(els, id) == { k \in 1..Len(els) : els[k].id = id }

\* C15: in every conversion result, of a flowchart or of a sequence diagram,
\* the ids of the visual nodes, subgraph containers included, are pairwise
\* distinct, the ids of the visual edges are pairwise distinct, and no visual
\* node has its own id as its parent reference.
C15_VisualIdsDistinct ==
    (pc = "settled" /\ ~caught) =>
        /\ PairwiseDistinctIds(data.nodes)
        /\ PairwiseDistinctIds(data.edges)
        /\ \A k \in 1..Len(data.nodes) : ~SelfParented(data.nodes[k])
\* C --> S1 with S1 a subgraph: the container S1 and a node S1
C15_Witness ==
    /\ pc = "settled" /\ ~caught
    /\ doc = EdgeToSubgraph
    /\ Cardinality(ElementsWithId(data.nodes, "S1")) = 2
    /\ \E k \in ElementsWithId(data.nodes, "S1") : data.nodes[k].type = "group"
    /\ \E k \in ElementsWithId(data.nodes, "S1") : data.nodes[k].type = "custom"
\* subgraph A with the node A in it: the node A is its own parent
C15_WitnessSelfParent ==
    /\ pc = "settled" /\ ~caught
    /\ doc = SubgraphNamedLikeNode
    /\ \E k \in 1..Len(data.nodes) :
          /\ data.nodes[k].type = "custom"
          /\ SelfParented(data.nodes[k])

\* a saved entry or a list of nodes holds the position of a drag
MovedIn(pos) == \E id \in DOMAIN pos : pos[id] = "moved"
\* the positions saved for the diagram on screen
SavedForCurrent == getPositions(positions, diagramHashRef).pos

\* C16: the position-cache key of the displayed diagram is the hash of its source
\* text after trimming it and collapsing every run of whitespace inside it, so that
\* two texts that differ only in whitespace have the same key.
C16_KeyOfCollapsedText ==
    shownCode # "" => diagramHashRef = HashOfNormalized(normalize(shownCode))
\* positions were saved for a text and the same text with wider spacing is on screen
C16_Witness ==
    /\ shownCode = CodeRespaced
    /\ \E h \in DOMAIN positions : positions[h].of = CodeOpened /\ MovedIn(positions[h].pos)

\* C17: under every interleaving of drags, changes of the displayed source, manual
\* saves and firings of the debounced save, the positions stored under a hash key
\* were extracted from nodes of the diagram with that hash.
C17_PositionsOfOwnDiagram ==
    \A h \in DOMAIN positions :
        DOMAIN positions[h].pos # {} => hashMermaidCode(positions[h].of) = h
\* a debounced save is pending while the component shows another diagram
C17_Witness ==
    /\ saveTimeout.armed
    /\ shownCode = CodeEdited
    /\ saveTimeout.nodes.of = CodeOpened

\* C18: after Reset, and until a node is moved, the displayed nodes stand where the
\* layout put them and no positions are saved for the current diagram.
C18_ResetClearsUntilMoved ==
    sinceReset = "clean" =>
        /\ flowData = originalNodesRef
        /\ ~MovedIn(flowData.pos)
        /\ DOMAIN SavedForCurrent = {}
\* Reset was pressed within the debounce interval of a drag
C18_Witness == sinceReset = "clean" /\ saveTimeout.armed

\* C19: with auto-refresh on and a diagram opened from a file, once the reads that
\* the file's modifications started have returned the view holds the block's text;
\* no modification changes the display while auto-refresh is off; and at most one
\* file watcher is registered.
C19_AutoRefreshFollowsFile ==
    /\ (watched /\ autoRefreshEnabled /\ reading.watcher = 0 => Trim(viewCode) = fileText)
    /\ ~changedWhileOff
    /\ Cardinality(vaultHandlers) <= 1
\* a modification of the file was followed by a refresh of the view
C19_Witness ==
    /\ watched /\ autoRefreshEnabled /\ reading.watcher = 0
    /\ shownCode = CodeOpened
    /\ viewCode = CodeRespaced
    /\ fileText = CodeRespaced

\* the node n of a parse stands in the member list of the subgraph at position j of
\* subgraphs (0: of none), once, and in no other list
MemberOfOnly(subgraphs, n, j) ==
    /\ n.subgraph = (IF j = 0 THEN "" ELSE subgraphs[j].id)
    /\ \A k \in 1..Len(subgraphs) :
          Occurrences(subgraphs[k].nodes, n.id) = (IF k = j THEN 1 ELSE 0)
\* the members of a list stand in the order of the lines that first name them
InEncounterOrder(d, members) ==
    \A a, b \in 1..Len(members) :
        a < b => FirstLineOf(d, members[a]) <= FirstLineOf(d, members[b])
SubgraphsOfFirstEncounter(d, nodes, subgraphs) ==
    /\ \A k \in 1..Len(nodes) :
          MemberOfOnly(subgraphs, nodes[k],
                       IF OpenAt(d, FirstLineOf(d, nodes[k].id)) = 0 THEN 0
                       ELSE SubgraphIndex(d, OpenAt(d, FirstLineOf(d, nodes[k].id))))
    /\ \A j \in 1..Len(subgraphs) : InEncounterOrder(d, subgraphs[j].nodes)

\* C21: after parsing a flowchart whose subgraph blocks are not nested, every node
\* stands in the member list of exactly the subgraph that was open on the line that
\* first names it (of none when none was open), its containerId is that subgraph,
\* and every member list is in first-encounter order without duplicates.
C21_MemberOfOpenSubgraph ==
    Parsed /\ IsFlowDoc(doc) /\ NotNested(doc)
        => SubgraphsOfFirstEncounter(doc, parsed.nodes, parsed.subgraphs)
\* a parse with a member of a closed subgraph and a standalone node after it
C21_Witness ==
    /\ Parsed /\ IsFlowDoc(doc) /\ NotNested(doc)
    /\ \E k \in 1..Len(doc.lines) : doc.lines[k].kind = "end"
    /\ \E a, b \in 1..Len(parsed.nodes) :
          parsed.nodes[a].subgraph # "" /\ parsed.nodes[b].subgraph = ""

\* the conversion went through the three phases of layoutGraph
LaidOutGraph ==
    pc = "settled" /\ ~caught /\ Len(parsed.nodes) # 0 /\ ~IsSequenceDiagram(mermaidCode)
\* what represents a node in the meta-graph: its subgraph, or the node itself
RepOf(n) == IF n.subgraph # "" THEN << "subgraph", n.subgraph >> ELSE << "node", n.id >>
Reps(nodes) == { RepOf(nodes[k]) : k \in 1..Len(nodes) }
\* some edge of the graph goes from a node of X to a node of Y
Crossing(nodes, edges, X, Y) ==
    \E k \in 1..Len(edges) :
        RepOf(FindNode(nodes, edges[k].source)) = X /\ RepOf(FindNode(nodes, edges[k].target)) = Y
MetaGraphOf(nodes, edges, meta, reps) ==
    /\ Cardinality(MetaNodes(meta)) = Cardinality(reps)
    /\ MetaNodes(meta) = { X[2] : X \in reps }
    /\ \A X, Y \in reps :
          Cardinality({ h \in 1..Len(meta.edges) : meta.edges[h] = << X[2], Y[2] >> })
            = (IF X # Y /\ Crossing(nodes, edges, X, Y) THEN 1 ELSE 0)

\* C22: the meta-graph has one meta-node per subgraph with members and one per
\* standalone node, and exactly one edge from X to Y when X and Y differ and some
\* edge of the graph goes from a node of X to a node of Y, and no other edge.
C22_MetaGraphOfCrossings ==
    LaidOutGraph => MetaGraphOf(parsed.nodes, parsed.edges, metaGraph, Reps(parsed.nodes))
\* a subgraph with an edge inside it and an edge into it from a standalone node
C22_Witness ==
    /\ LaidOutGraph
    /\ Len(metaGraph.containers) = 1 /\ Len(metaGraph.standalone) = 1
    /\ Len(metaGraph.edges) = 1 /\ Len(parsed.edges) = 2

\* the container elements and the visual nodes of a result, in its order
GroupsOf(els) == SelectSeq(els, LAMBDA el : el.type = "group")
VisualsOf(els) == SelectSeq(els, LAMBDA el : el.type = "custom")
\* the subgraphs of a parse that some node names as its subgraph
WithMembers(nodes, subgraphs) ==
    SelectSeq(subgraphs, LAMBDA sg : \E k \in 1..Len(nodes) : nodes[k].subgraph = sg.id)
\* a container stands in els before position k and has the id
ContainerBefore(els, k, id) ==
    \E h \in 1..(k - 1) : els[h].type = "group" /\ els[h].id = id
\* the elements are one container per subgraph of declared and one visual node
\* per node of nodes, members under their container and standalone nodes free
ElementsOfGraph(els, nodes, declared, groups, visuals) ==
    /\ Len(groups) = Len(declared)
    /\ \A k \in 1..Len(groups) :
          /\ groups[k].id = declared[k].id
          /\ ~groups[k].connectable /\ groups[k].draggable /\ groups[k].zIndex = -1
    /\ Len(visuals) = Len(nodes)
    /\ \A k \in 1..Len(visuals) :
          /\ visuals[k].id = nodes[k].id
          /\ visuals[k].parentNode = nodes[k].subgraph
          /\ visuals[k].extent = (IF nodes[k].subgraph # "" THEN "parent" ELSE "")
    /\ \A k \in 1..Len(els) :
          els[k].type = "custom" /\ els[k].parentNode # ""
              => ContainerBefore(els, k, els[k].parentNode)

\* C23 as stated: one container element per subgraph declared in the source and
\* one visual node per parsed node; a member carries its subgraph's id as parent
\* reference with the parent extent and stands after its container; a standalone
\* node has no parent reference.
C23_ContainerPerDeclaredSubgraph ==
    LaidOutGraph => ElementsOfGraph(data.nodes, parsed.nodes, parsed.subgraphs,
                                    GroupsOf(data.nodes), VisualsOf(data.nodes))
\* C23, amended: one container element per declared subgraph that has at least one
\* member node, and the rest as stated.
C23_ContainerPerSubgraphWithMembers ==
    LaidOutGraph => ElementsOfGraph(data.nodes, parsed.nodes,
                                    WithMembers(parsed.nodes, parsed.subgraphs),
                                    GroupsOf(data.nodes), VisualsOf(data.nodes))
\* a result with a container, a member of it and a standalone node
C23_Witness ==
    /\ LaidOutGraph
    /\ \E a, b \in 1..Len(data.nodes) :
          /\ data.nodes[a].type = "custom" /\ data.nodes[a].parentNode # ""
          /\ data.nodes[b].type = "custom" /\ data.nodes[b].parentNode = ""
\* a result for a source that declares a subgraph without members
C23_WitnessEmptySubgraph ==
    /\ LaidOutGraph
    /\ Len(WithMembers(parsed.nodes, parsed.subgraphs)) < Len(parsed.subgraphs)


\* C25: the label of every flowchart node whose first mention in the source
\* carries a bracket pair is the text enclosed by that pair, for each of the
\* five bracket forms, with every HTML line-break tag replaced by a newline,
\* every other HTML tag removed and the surrounding whitespace trimmed:
\* A{Decision} has the label "Decision" and B((Start)) the label "Start".
C25_LabelIsEnclosedText ==
    (Parsed /\ IsFlowDoc(doc)) =>
        \A k \in 1..Len(parsed.nodes) :
            (/\ parsed.nodes[k].id \in RefIds(doc)
             /\ FirstRef(doc, parsed.nodes[k].id).def # "")
            => parsed.nodes[k].label
                 = Trim(StripTags(LabelOfRef(FirstRef(doc, parsed.nodes[k].id))))
\* the line B([Ok]) alone: the label keeps the inner opening bracket
C25_Witness ==
    /\ pc = "parsed"
    /\ doc = OneLine("graph TD", NodeLine(Ref("B", "([Ok])")))
    /\ HasNode(parsed.nodes, "B")
    /\ NodeAt(parsed.nodes, "B").label = "[Ok"


\* the attributes an arrow token stands for: animated, stroke width in tenths,
\* dash pattern
StyleOfArrow(token) ==
    CASE token \in {"-->", "->"}   -> << TRUE, 25, "" >>
      [] token \in {"==>", "===>"} -> << TRUE, 40, "" >>
      [] token = "---"             -> << FALSE, 20, "8,4" >>
      [] token = "-.-"             -> << FALSE, 20, "4,4" >>
      [] OTHER                     -> << FALSE, 20, "" >>
StyleOfElement(el) == << el.animated, el.strokeWidth10, el.strokeDasharray >>

\* C26: the visual attributes of a flowchart edge are a function of its arrow
\* token and its creation index only: --> and -> give an animated edge of
\* stroke width 2.5, ==> and ===> an animated edge of width 4, --- a
\* non-animated edge dashed 8,4, -.- a non-animated edge dashed 4,4, every
\* other recognized token a non-animated solid edge of width 2, and the edge
\* with the 0-based index i has the colour i mod 5 of the palette.  Where every
\* edge line of the source gave an edge, the token is the one of the line.
C26_EdgeStyleByArrowAndIndex ==
    LaidOutGraph =>
        /\ Len(data.edges) = Len(parsed.edges)
        /\ \A k \in 1..Len(data.edges) :
              /\ StyleOfElement(data.edges[k]) = StyleOfArrow(parsed.edges[k].type)
              /\ data.edges[k].stroke = EdgeColors[((k - 1) % 5) + 1]
              /\ Len(parsed.edges) = Len(EdgeLines(doc))
                   => parsed.edges[k].type = EdgeLines(doc)[k].arrow
\* the eight edges of ArrowKinds: the sixth and the seventh have the first two
\* colours again, the thick and the dashed edges are as their tokens say
C26_Witness ==
    /\ LaidOutGraph
    /\ doc = ArrowKinds
    /\ Len(data.edges) = 8
    /\ StyleOfElement(data.edges[2]) = << TRUE, 25, "" >>
    /\ StyleOfElement(data.edges[4]) = << TRUE, 40, "" >>
    /\ StyleOfElement(data.edges[5]) = << FALSE, 20, "8,4" >>
    /\ StyleOfElement(data.edges[6]) = << FALSE, 20, "4,4" >>
    /\ StyleOfElement(data.edges[7]) = << FALSE, 20, "" >>
    /\ data.edges[6].stroke = EdgeColors[1] /\ data.edges[7].stroke = EdgeColors[2]
    /\ data.edges[5].stroke = EdgeColors[5]


\* a sequence diagram with nodes went through layoutSequenceDiagram
LaidOutSequence ==
    pc = "settled" /\ ~caught /\ Len(parsed.nodes) # 0 /\ IsSeqDoc(doc)
At(x, y) == [x |-> x, y |-> y]
\* the header of the p-th participant (from 0) and its points 0..M+1 stand in
\* column p, the header in the header row, point i in row i
InColumn(els, id, p, M) ==
    /\ HasNode(els, "header_" \o id)
    /\ NodeAt(els, "header_" \o id).position = At(300 * p, 50)
    /\ \A i \in 0..(M + 1) :
          /\ HasNode(els, LifelineId(id, i))
          /\ NodeAt(els, LifelineId(id, i)).position = At(300 * p, 150 + 100 * i)
HeaderX(els, id) == NodeAt(els, "header_" \o id).position.x

\* C27: in the sequence layout the header of the participant with discovery
\* index p stands at (300*p, 50) and its lifeline point with index i at
\* (300*p, 150 + 100*i); so the two ends of every message edge have the same
\* y and two different participants never share an x.
C27_SequenceGrid ==
    LaidOutSequence =>
        /\ Len(data.nodes) = Len(parsed.nodes)
        /\ \A p \in 1..Len(OrderOfDoc(doc)) :
              InColumn(data.nodes, OrderOfDoc(doc)[p], p - 1, Len(MessagesOfDoc(doc)))
        /\ \A k \in 1..Len(LabelledEdges(data.edges)) :
              NodeAt(data.nodes, LabelledEdges(data.edges)[k].source).position.y
                = NodeAt(data.nodes, LabelledEdges(data.edges)[k].target).position.y
        /\ \A p, q \in 1..Len(OrderOfDoc(doc)) :
              p # q => HeaderX(data.nodes, OrderOfDoc(doc)[p])
                         # HeaderX(data.nodes, OrderOfDoc(doc)[q])
\* declarations after the messages: C, found third, stands in the third column
\* and the second message joins two points of the row at y = 350
C27_Witness ==
    /\ LaidOutSequence
    /\ doc = LateDeclarations
    /\ NodeAt(data.nodes, "header_C").position = At(600, 50)
    /\ NodeAt(data.nodes, "lifeline_C_3").position = At(600, 450)
    /\ LabelledEdges(data.edges)[2].source = "lifeline_D_2"
    /\ NodeAt(data.nodes, "lifeline_D_2").position = At(900, 350)
    /\ NodeAt(data.nodes, "lifeline_C_2").position = At(600, 350)


UnlabelledEdges(edges) == SelectSeq(edges, LAMBDA e : e.label = "")
\* the prominent style of a message edge, dashed or not, and the muted style
Prominent(el, dashed) ==
    /\ el.animated
    /\ el.strokeWidth10 = 30
    /\ el.stroke = "#3b82f6"
    /\ el.markerEnd
    /\ el.labelBgStyle
    /\ (el.strokeDasharray # "") = dashed
Muted(el) ==
    /\ ~el.animated
    /\ el.strokeWidth10 = 20
    /\ el.stroke = "#cbd5e1"
    /\ ~el.markerEnd

\* C28: in the sequence output every message edge, whatever the ids of its
\* two participants, is animated and has the prominent style (stroke width 3,
\* arrow marker, label background), every lifeline edge and every
\* header-to-lifeline edge is not animated and has the muted style without
\* marker, and a message edge is dashed exactly when its arrow token
\* contains "--".
C28_SequenceEdgeStyles ==
    LaidOutSequence =>
        /\ Len(LabelledEdges(data.edges)) = Len(MessagesOfDoc(doc))
        /\ \A k \in 1..Len(LabelledEdges(data.edges)) :
              Prominent(LabelledEdges(data.edges)[k],
                        Includes(MessagesOfDoc(doc)[k].arrow, "--"))
        /\ \A k \in 1..Len(UnlabelledEdges(data.edges)) :
              Muted(UnlabelledEdges(data.edges)[k])
\* the message header_A-->>B: Hi is drawn like a header edge, its answer
\* B->>header_A: Ok like a message
C28_Witness ==
    /\ LaidOutSequence
    /\ doc = HeaderNamed
    /\ LabelledEdges(data.edges)[1].source = "lifeline_header_A_1"
    /\ ~LabelledEdges(data.edges)[1].animated
    /\ LabelledEdges(data.edges)[1].stroke = "#cbd5e1"
    /\ Prominent(LabelledEdges(data.edges)[2], FALSE)


\* the member rectangles in the coordinates of their container
LeftOf(id) == memberPositions[id].x
TopOf(id) == memberPositions[id].y
RightOf(id) == memberPositions[id].x + subgraphLayout.nodes[id].width
BottomOf(id) == memberPositions[id].y + subgraphLayout.nodes[id].height
Members == DOMAIN memberPositions
Placed == boxPc = "placed"

\* C24: for every subgraph with at least one member and for any positions
\* returned by the layered layout, the container box tightly bounds its
\* members plus padding and header: the leftmost member's left edge is at
\* x = 30, the topmost member's top edge at y = 80, the width is the members'
\* horizontal extent plus 60 and the height their vertical extent plus 110,
\* so every member rectangle lies within [30, width - 30] x [80, height - 30].
\* (Lengths in tenths.)
C24_BoxBoundsMembers ==
    Placed =>
        /\ Members = IdsOf(subgraphNodes)
        /\ MinOf({ LeftOf(id) : id \in Members }) = 300
        /\ MinOf({ TopOf(id) : id \in Members }) = 800
        /\ subgraphLayout.width
             = MaxOf({ RightOf(id) : id \in Members })
                 - MinOf({ LeftOf(id) : id \in Members }) + 600
        /\ subgraphLayout.height
             = MaxOf({ BottomOf(id) : id \in Members })
                 - MinOf({ TopOf(id) : id \in Members }) + 1100
        /\ \A id \in Members :
              /\ 300 <= LeftOf(id) /\ RightOf(id) <= subgraphLayout.width - 300
              /\ 800 <= TopOf(id) /\ BottomOf(id) <= subgraphLayout.height - 300
\* a wide diamond left of and below a small circle: the diamond's left edge
\* is at 30, the circle's top edge at 80, and the box is wider than both
C24_Witness ==
    /\ Placed
    /\ Len(subgraphNodes) = 2
    /\ subgraphNodes[1].shape = "diamond" /\ subgraphNodes[1].label # "A"
    /\ subgraphNodes[2].shape = "circle" /\ subgraphNodes[2].label = "A"
    /\ dagreGraph["N1"].x = 0 /\ dagreGraph["N2"].x = 1255
    /\ dagreGraph["N1"].y = 900 /\ dagreGraph["N2"].y = -400
    /\ LeftOf("N1") = 300 /\ TopOf("N2") = 800
    /\ subgraphLayout.nodes["N1"].width = 968
    /\ LeftOf("N2") > RightOf("N1") - 968
    /\ subgraphLayout.width > 968 + 1100 + 600


\* C29: in live-preview mode the click on the button of a mermaid block opens
\* the view with the source text of that same block of the active file,
\* whatever supported and unsupported mermaid blocks the file holds and in
\* whatever order the blocks came into the page; if no source was found, the
\* view is not changed.
C29_ButtonOpensItsBlock ==
    clicked.block # 0 =>
        IF clicked.source = "" THEN viewCode = clicked.before
        ELSE /\ clicked.source = Trim(noteBlocks[clicked.block])
             /\ viewCode = clicked.source
\* a chart that is not supported above a flowchart: the button of the chart
\* opens the flowchart
C29_Witness ==
    /\ noteBlocks = << "pie", "graph TD\nA" >>
    /\ pageBlocks = {1, 2}
    /\ clicked.block = 1
    /\ clicked.source = "graph TD\nA"
    /\ viewCode = "graph TD\nA"
\* a sequence diagram that came into the page before the flowchart above it:
\* both buttons hold the index 0 and the lower one opens the flowchart
C29_WitnessOrder ==
    /\ noteBlocks = << "graph TD\nA", "sequenceDiagram" >>
    /\ buttons = [b \in {1, 2} |-> 0]
    /\ clicked.block = 2
    /\ viewCode = "graph TD\nA"


\* the stored list before the last call and after it
ListBefore == getAllDiagrams(called.before).items
ListAfter == getAllDiagrams(localStorage).items
Known(items, id) == \E k \in 1..Len(items) : IdIs(items[k], id)
OthersKept(before, after, id) ==
    /\ Len(after) = Len(before)
    /\ \A k \in 1..Len(before) : ~IdIs(before[k], id) => after[k] = before[k]
OneAdded(before, after, id) ==
    /\ Len(after) = Len(before) + 1
    /\ SubSeq(after, 1, Len(before)) = before
    /\ IdIs(after[Len(after)], id)

\* C30: in the diagram store a failed operation leaves the stored list
\* unchanged: updateDiagram with an unknown id returns null, deleteDiagram
\* with an unknown id returns false, importDiagram of a text that is no valid
\* JSON or lacks nodes, edges or name returns null, and the stored item is
\* then the one before the call; a successful update or delete changes only
\* the record with the given id, and a successful import adds exactly one
\* record, with the id generated in the call.
C30_FailedCallsChangeNothing ==
    /\ called.op = "update" =>
          IF Known(ListBefore, called.id)
          THEN returned.t = "object" /\ OthersKept(ListBefore, ListAfter, called.id)
          ELSE returned = JNull /\ localStorage = called.before
    /\ called.op = "delete" =>
          IF Known(ListBefore, called.id)
          THEN /\ returned = JTrue
               /\ ListAfter = SelectSeq(ListBefore, LAMBDA d : ~IdIs(d, called.id))
          ELSE returned = JFalse /\ localStorage = called.before
    /\ called.op = "import" =>
          /\ ~called.importable => returned = JNull
          /\ IF returned = JNull THEN localStorage = called.before
             ELSE /\ OneAdded(ListBefore, ListAfter, called.generated)
                  /\ IdIs(returned, called.generated)
\* an update with an id that no record has, after two records were stored
C30_Witness ==
    /\ called.op = "update"
    /\ called.id = "diagram_9_zz"
    /\ Len(ListBefore) = 2
    /\ returned = JNull
    /\ localStorage = called.before
\* an import of a text without name after a save: null, and the one record stays
C30_WitnessImport ==
    /\ called.op = "import"
    /\ called.input = ObjectText(<< "id", "nodes", "edges" >>)
    /\ returned = JNull
    /\ Len(ListAfter) = 1
\* an import of an exported record: a second record, with a new id and the
\* name marked as imported
C30_WitnessImported ==
    /\ called.op = "import"
    /\ returned # JNull
    /\ Len(ListAfter) = 2
    /\ IdIs(ListAfter[1], "diagram_0_k3x")
    /\ IdIs(ListAfter[2], "diagram_1_k3x")
    /\ Get(ListAfter[2], "name") = JStr("Flow (Imported)")
    /\ Get(ListAfter[2], "nodes") = Get(ListAfter[1], "nodes")

==============================================================================
